---- MODULE Spec2Model ----
(***************************************************************************)
(* Verification model of the Confluence toolbelt: the storage <-> markdown *)
(* converter (storage-dom.ts), the partial-update splice                   *)
(* (replaceNodesById), the header/inline-tag parsers and the upload        *)
(* command.                                                                *)
(*                                                                         *)
(* Text is modelled as sequences of one-character strings; the regular     *)
(* expressions of the source are translated into scanning operators that   *)
(* follow the JavaScript semantics (leftmost match, greedy or lazy         *)
(* quantifiers, global replacement continuing after the match).            *)
(* A parsed markup document is a sequence of top-level nodes, each with an *)
(* optional data-node-id, a content and a sequence of child nodes.         *)
(***************************************************************************)
EXTENDS Integers, Sequences, FiniteSets, TLC

VARIABLES
  \* replaceNodesById: one call
  storageDoc,     \* the parsed document being mutated (document.body children)
  replacements,   \* Object.entries(replacements) still to be processed
  missing,        \* the missing list built so far
  call,           \* the arguments of the call: [doc, entries]
  rpc,            \* "loop" while iterating, "done" after return
  \* uploadAll: one run of the upload command
  disk,           \* the markdown files of the working directory, by name
  remote,         \* the remote page: [storage, version]
  args,           \* the command line: [kind, paths] (paths: the selection)
  files,          \* the files selected for upload, in order
  fileIdx,        \* index into files of the current loop iteration
  upc,            \* position in uploadAll
  fetched,        \* result of getPageStorage in the current iteration
  updates,        \* the updatePageStorage calls made so far
  \* the text converters: one call
  input,          \* the argument of the call
  output,         \* the value computed so far
  stage           \* position in the call

replaceVars == <<storageDoc, replacements, missing, call, rpc>>
uploadVars == <<disk, remote, args, files, fileIdx, upc, fetched, updates>>
textVars == <<input, output, stage>>
vars == <<replaceVars, uploadVars, textVars>>

(***************************************************************************)
(* Bounds of the model                                                     *)
(***************************************************************************)
MaxTop == 2       \* top-level nodes of a document
MaxEdits == 2     \* entries of an edit map
MaxLines == 3     \* lines of a markdown body

Min(S) == CHOOSE x \in S : \A y \in S : x <= y

(***************************************************************************)
(* Markup tree                                                             *)
(***************************************************************************)
NoId == ""
NodeIds == {"1", "2"}

Node(id, txt, kids) == [id |-> id, txt |-> txt, kids |-> kids]
Leaf(id, txt) == Node(id, txt, <<>>)

SeqsUpTo(S, n) == UNION { [1..k -> S] : k \in 0..n }

\* Content of a node. Every node of a fetched document has its own content
\* (named after its position); the content of a replacement fragment is
\* named after the edit entry it belongs to.
OldTxt(i, j) == [k |-> "old", i |-> i, j |-> j]
NewTxt(i, j) == [k |-> "new", i |-> i, j |-> j]

KidAt(i, j, id) == Leaf(id, OldTxt(i, j))
TopAt(i, id, kidIds) ==
  Node(id, OldTxt(i, 0), [j \in 1..Len(kidIds) |-> KidAt(i, j, kidIds[j])])

\* The documents a fetch can return: up to MaxTop top-level nodes, each with
\* at most one child, every node with or without a data-node-id.
KidIdSeqs == { <<>> } \cup { <<id>> : id \in NodeIds \cup {NoId} }
Documents ==
  UNION { { [i \in 1..n |-> TopAt(i, ids[i], kk[i])] :
              ids \in [1..n -> NodeIds \cup {NoId}],
              kk \in [1..n -> KidIdSeqs] } :
          n \in 0..MaxTop }

\* The parsed html of one edit entry: the child nodes of the placeholder div.
\* shape "empty": no node; "one": one node; "two": two top-level nodes;
\* "tagged": one node that itself carries a data-node-id.
FragIdOf == "2"
Fragment(shape, e) ==
  CASE shape = "empty" -> <<>>
    [] shape = "one" -> <<Leaf(NoId, NewTxt(e, 1))>>
    [] shape = "two" -> <<Leaf(NoId, NewTxt(e, 1)), Leaf(NoId, NewTxt(e, 2))>>
    [] shape = "tagged" -> <<Leaf(FragIdOf, NewTxt(e, 1))>>
FragShapes == {"empty", "one", "two", "tagged"}

\* Object.entries(replacements): distinct keys, in the engine's key order.
Injective(f) == \A a, b \in DOMAIN f : f[a] = f[b] => a = b
EditMaps ==
  UNION { { [e \in 1..n |-> [nodeId |-> ids[e], html |-> Fragment(sh[e], e)]] :
              ids \in { f \in [1..n -> NodeIds] : Injective(f) },
              sh \in [1..n -> FragShapes] } :
          n \in 1..MaxEdits }

(***************************************************************************)
(* replaceNodesById                                                        *)
(***************************************************************************)
\* document.querySelector('[data-node-id="id"]'): the first node in document
\* order (pre-order) bearing the id, as a path; <<>> when there is none.
HoldsId(n, id) == n.id = id \/ \E j \in 1..Len(n.kids) : n.kids[j].id = id
querySelector(doc, id) ==
  LET hits == { i \in 1..Len(doc) : HoldsId(doc[i], id) }
  IN IF hits = {} THEN <<>>
     ELSE LET i == Min(hits)
          IN IF doc[i].id = id THEN <<i>>
             ELSE <<i, Min({ j \in 1..Len(doc[i].kids) : doc[i].kids[j].id = id })>>

\* document.createElement("div") with no child
Placeholder == Leaf(NoId, [k |-> "div", i |-> 0, j |-> 0])

\* Mutant: the last child of the fragment is taken.
lastChildOrPlaceholder(frag) == IF Len(frag) = 0 THEN Placeholder ELSE frag[Len(frag)]

\* placeholder.firstChild ?? placeholder
firstChildOrPlaceholder(frag) == IF Len(frag) = 0 THEN Placeholder ELSE frag[1]

\* Mutant: the replacement is written over the first top-level node.
replaceChildAtFront(doc, path, repl) == [doc EXCEPT ![1] = repl]

\* parent.replaceChild(replacement, target)
replaceChild(doc, path, repl) ==
  IF Len(path) = 1 THEN [doc EXCEPT ![path[1]] = repl]
  ELSE [doc EXCEPT ![path[1]].kids[path[2]] = repl]

\* Mutant: an entry whose id is not found drops the last top-level node.
onMissingDropLast(st, nodeId) ==
  [html |-> SubSeq(st.html, 1, Len(st.html) - 1), missing |-> Append(st.missing, nodeId)]

\* if (!target) { missing.push(nodeId); continue; }
onMissing(st, nodeId) == [html |-> st.html, missing |-> Append(st.missing, nodeId)]

\* One iteration of the for loop over Object.entries(replacements).
replaceEntry(st, e) ==
  LET target == querySelector(st.html, e.nodeId)
  IN IF target = <<>> THEN onMissing(st, e.nodeId)
     ELSE [html |-> replaceChild(st.html, target, firstChildOrPlaceholder(e.html)),
           missing |-> st.missing]

RECURSIVE replaceLoop(_, _)
replaceLoop(st, entries) ==
  IF entries = <<>> THEN st
  ELSE replaceLoop(replaceEntry(st, Head(entries)), Tail(entries))

\* replaceNodesById(storageHtml, replacements) -> { html, missing }
replaceNodesById(doc, entries) ==
  replaceLoop([html |-> doc, missing |-> <<>>], entries)

(***************************************************************************)
(* One call of replaceNodesById, an iteration of its loop per step         *)
(***************************************************************************)
\* The parts of the state that a run of another operation leaves idle.
IdleReplace ==
  /\ storageDoc = <<>> /\ replacements = <<>> /\ missing = <<>>
  /\ call = <<>> /\ rpc = "idle"
IdleUpload ==
  /\ disk = <<>> /\ remote = <<>> /\ args = <<>> /\ files = <<>> /\ fileIdx = 0
  /\ upc = "idle" /\ fetched = <<>> /\ updates = <<>>
IdleText == input = <<>> /\ output = <<>> /\ stage = "idle"

InitReplace ==
  /\ IdleUpload /\ IdleText
  /\ call \in { [doc |-> d, entries |-> m] : d \in Documents, m \in EditMaps }
  /\ storageDoc = call.doc
  /\ replacements = call.entries
  /\ missing = <<>>
  /\ rpc = "loop"

ReplaceStep ==
  /\ rpc = "loop"
  /\ replacements # <<>>
  /\ LET st == replaceEntry([html |-> storageDoc, missing |-> missing], Head(replacements))
     IN /\ storageDoc' = st.html
        /\ missing' = st.missing
  /\ replacements' = Tail(replacements)
  /\ UNCHANGED <<call, rpc, uploadVars, textVars>>

ReplaceReturn ==
  /\ rpc = "loop"
  /\ replacements = <<>>
  /\ rpc' = "done"
  /\ UNCHANGED <<storageDoc, replacements, missing, call, uploadVars, textVars>>

NextReplace == ReplaceStep \/ ReplaceReturn

SpecReplace == InitReplace /\ [][NextReplace]_vars

(***************************************************************************)
(* Claims about replaceNodesById                                           *)
(***************************************************************************)
EditIds == { call.entries[e].nodeId : e \in 1..Len(call.entries) }
MissingSet == { missing[k] : k \in 1..Len(missing) }
BorneInDoc(id) == querySelector(call.doc, id) # <<>>
BorneInFragment(id) ==
  \E e \in 1..Len(call.entries) :
    \E k \in 1..Len(call.entries[e].html) : call.entries[e].html[k].id = id
AllPresent == \A id \in EditIds : BorneInDoc(id)
ContainsRequested(n) == \E j \in 1..Len(n.kids) : n.kids[j].id \in EditIds
Kept(i) == i <= Len(storageDoc) /\ storageDoc[i] = call.doc[i]

\* C1 (as stated): when every identifier of the edit map is present, every
\* top-level block that does not bear a requested identifier keeps its
\* content, its identifier and its position.
C1_OtherBlocksKept ==
  (rpc = "done" /\ AllPresent) =>
    \A i \in 1..Len(call.doc) : call.doc[i].id \notin EditIds => Kept(i)

\* C1 (amended): when every identifier of the edit map is present, every
\* top-level block that neither bears a requested identifier nor contains a
\* node bearing one keeps its content, its identifier and its position.
C1_UnrelatedBlocksKept ==
  (rpc = "done" /\ AllPresent) =>
    \A i \in 1..Len(call.doc) :
      (call.doc[i].id \notin EditIds /\ ~ContainsRequested(call.doc[i])) => Kept(i)

\* C1 witness: a call that replaced one block and left another identified
\* block, whose identifier was not requested, in place.
C1_Witness ==
  /\ rpc = "done" /\ AllPresent /\ missing = <<>>
  /\ \E i, k \in 1..Len(call.doc) :
       /\ i # k
       /\ storageDoc[i] # call.doc[i]
       /\ call.doc[k].id \in NodeIds \ EditIds
       /\ storageDoc[k] = call.doc[k]

Unfindable(id) == ~BorneInDoc(id) /\ ~BorneInFragment(id)
FindableEntries == SelectSeq(call.entries, LAMBDA e : ~Unfindable(e.nodeId))
HLine(key, colon, value) == [key |-> key, colon |-> colon, value |-> value, term |-> FALSE]
ReadonlyLine == HLine("READONLY", FALSE, "")
PageIdLine == HLine("pageId", TRUE, "p1")
TitleLine == HLine("title", TRUE, "T")
TitleWithTerminator == [key |-> "title", colon |-> TRUE, value |-> "a", term |-> TRUE]

\* trimmed.indexOf(HEADER_END): the header content ends at the first "-->".
headerEnd(header) ==
  LET ends == { k \in 1..Len(header) : header[k].term }
  IN IF ends = {} THEN Len(header) ELSE Min(ends)

\* const m = line.match(/^(\w+):\s*(.+)$/)
matchKeyValue(line) == line.colon /\ line.value # ""

RECURSIVE parseHeaderLines(_, _)
parseHeaderLines(lines, meta) ==
  IF lines = <<>> THEN meta
  ELSE LET line == Head(lines)
           next ==
             IF ~line.colon /\ line.key = "READONLY" THEN [meta EXCEPT !.readonly = TRUE]
             ELSE IF ~matchKeyValue(line) THEN meta
             ELSE IF line.key = "pageId" THEN [meta EXCEPT !.pageId = line.value]
             ELSE IF line.key = "title" THEN [meta EXCEPT !.title = line.value]
             ELSE meta
       IN parseHeaderLines(Tail(lines), next)

EmptyMeta == [readonly |-> FALSE, pageId |-> "", title |-> ""]

\* Body lines: [kind, id, t] with kind "tag" (<!-- node:id -->), "blank",
\* "text" (a paragraph line) or "heading"; t names the text of the line.
BLine(kind, id, t) == [kind |-> kind, id |-> id, t |-> t]
TagLine(id) == BLine("tag", id, 0)
BlankLine == BLine("blank", NoId, 0)
TextLine(t) == BLine("text", NoId, t)
HeadingLine(t) == BLine("heading", NoId, t)

\* What follows a "-->" met inside the header: the rest of that line, the
\* remaining header lines and the closing "-->" all become body text.
spilled(header) ==
  [k \in 1..(Len(header) - headerEnd(header) + 2) |-> TextLine(90 + k)]

\* parseHeader(markdown) -> { meta, body }
parseHeader(file) ==
  IF ~file.hasHeader THEN [meta |-> EmptyMeta, body |-> file.body]
  ELSE LET e == headerEnd(file.header)
       IN [meta |-> parseHeaderLines(SubSeq(file.header, 1, e), EmptyMeta),
           body |-> IF e = Len(file.header) /\ ~(e > 0 /\ file.header[e].term)
                    THEN file.body
                    ELSE spilled(file.header) \o file.body]

(***************************************************************************)
(* inline-tags: parseBlocks                                                *)
(***************************************************************************)
\* text: current.join("\n").trimEnd(), blank lines at the end removed
RECURSIVE trimEndLines(_)
trimEndLines(lines) ==
  IF lines # <<>> /\ lines[Len(lines)].kind = "blank"
  THEN trimEndLines(SubSeq(lines, 1, Len(lines) - 1))
  ELSE lines

\* function flush()
flush(st) ==
  IF st.current = <<>> THEN st
  ELSE [blocks |-> Append(st.blocks, [tag |-> st.pendingTag, text |-> trimEndLines(st.current)]),
        pendingTag |-> NoId,
        current |-> <<>>]

\* Mutant: a flush keeps the pending tag for the next block.
parseLineKeepTag(st, line) ==
  IF line.kind = "tag" THEN [flush(st) EXCEPT !.pendingTag = line.id]
  ELSE LET pushed == [st EXCEPT !.current = Append(st.current, line)]
       IN IF line.kind = "blank"
          THEN [flush(pushed) EXCEPT !.pendingTag = st.pendingTag]
          ELSE pushed

\* the body of the loop over the lines
parseLine(st, line) ==
  IF line.kind = "tag" THEN [flush(st) EXCEPT !.pendingTag = line.id]
  ELSE LET pushed == [st EXCEPT !.current = Append(st.current, line)]
       IN IF line.kind = "blank" THEN flush(pushed) ELSE pushed

RECURSIVE parseBlocksLoop(_, _)
parseBlocksLoop(st, lines) ==
  IF lines = <<>> THEN flush(st)
  ELSE parseBlocksLoop(parseLine(st, Head(lines)), Tail(lines))

\* parseBlocks(markdownBody): blocks with empty text are filtered out
parseBlocks(body) ==
  SelectSeq(parseBlocksLoop([blocks |-> <<>>, pendingTag |-> NoId, current |-> <<>>], body).blocks,
            LAMBDA b : b.text # <<>>)

(***************************************************************************)
(* markdownToStorageHtml on lines: blank lines are skipped, a paragraph    *)
(* consumes the lines up to the next blank line (a tag line that reaches   *)
(* the converter is an ordinary paragraph line).                           *)
(***************************************************************************)
Paragraph(lines) == Leaf(NoId, [k |-> "p", lines |-> lines])

\* while (i < lines.length && !/^\s*$/.test(lines[i])) i++
paraEnd(lines, i) ==
  LET blanks == { k \in i..Len(lines) : lines[k].kind = "blank" }
  IN IF blanks = {} THEN Len(lines) + 1 ELSE Min(blanks)

RECURSIVE markdownLoop(_, _, _)
markdownLoop(lines, i, out) ==
  IF i > Len(lines) THEN out
  ELSE IF lines[i].kind = "blank" THEN markdownLoop(lines, i + 1, out)
  ELSE LET e == paraEnd(lines, i)
       IN markdownLoop(lines, e, Append(out, Paragraph(SubSeq(lines, i, e - 1))))

markdownToStorageHtml(lines) == markdownLoop(lines, 1, <<>>)

(***************************************************************************)
(* uploadAll: the replacements of one file                                 *)
(***************************************************************************)
\* replacements[b.tag.nodeId] = html, for the tagged blocks with html
RECURSIVE buildReplacements(_, _)
buildReplacements(blocks, map) ==
  IF blocks = <<>> THEN map
  ELSE LET b == Head(blocks)
           html == markdownToStorageHtml(b.text)
       IN IF b.tag = NoId \/ html = <<>> THEN buildReplacements(Tail(blocks), map)
          ELSE buildReplacements(Tail(blocks),
                 [id \in DOMAIN map \cup {b.tag} |-> IF id = b.tag THEN html ELSE map[id]])

\* Object.entries of an object whose keys are integer-like: ascending keys.
KeyOrder == <<"1", "2">>
RECURSIVE ObjectEntries(_, _)
ObjectEntries(map, keys) ==
  IF keys = <<>> THEN <<>>
  ELSE (IF Head(keys) \in DOMAIN map
        THEN <<[nodeId |-> Head(keys), html |-> map[Head(keys)]]>>
        ELSE <<>>) \o ObjectEntries(map, Tail(keys))

\* Mutant: the partially replaced document is submitted whenever a block is
\* tagged, whatever the missing list holds.
outgoingIgnoringMissing(storageHtml, body) ==
  LET entries == ObjectEntries(buildReplacements(parseBlocks(body), <<>>), KeyOrder)
  IN IF entries # <<>>
     THEN [via |-> "partial", html |-> replaceNodesById(storageHtml, entries).html]
     ELSE [via |-> "full", html |-> markdownToStorageHtml(body)]

\* The document passed to updatePageStorage, and the branch that built it.
outgoing(storageHtml, body) ==
  LET entries == ObjectEntries(buildReplacements(parseBlocks(body), <<>>), KeyOrder)
      r == replaceNodesById(storageHtml, entries)
  IN IF entries # <<>>
     THEN IF Len(r.missing) > 0
          THEN [via |-> "fallback", html |-> markdownToStorageHtml(body)]
          ELSE [via |-> "partial", html |-> r.html]
     ELSE [via |-> "full", html |-> markdownToStorageHtml(body)]

\* Mutant: only files without a pageId are skipped.
skipsWithoutPageIdOnly(meta) == meta.pageId = ""

\* if (!meta.pageId) continue;  if (meta.readonly) continue;
skips(meta) == meta.pageId = "" \/ meta.readonly

(***************************************************************************)
(* uploadAll: the working directory, the remote page and the command line  *)
(***************************************************************************)
MaxPaths == 2     \* explicit file paths on the command line

File(hasHeader, header, body) == [hasHeader |-> hasHeader, header |-> header, body |-> body]

BodyLines == { TagLine(id) : id \in NodeIds } \cup { BlankLine, TextLine(1) }
Bodies == SeqsUpTo(BodyLines, MaxLines)
Headers ==
  { <<PageIdLine>>, <<ReadonlyLine, PageIdLine>>, <<PageIdLine, TitleLine, ReadonlyLine>>,
    <<ReadonlyLine, TitleLine>>, <<PageIdLine, TitleWithTerminator, ReadonlyLine>> }

\* a.md ranges over every header and body; b.md over a few files.
FilesA ==
  { File(TRUE, h, b) : h \in Headers, b \in Bodies } \cup { File(FALSE, <<>>, <<TextLine(1)>>) }
FilesB ==
  { File(TRUE, <<PageIdLine>>, <<TextLine(1)>>),
    File(TRUE, <<ReadonlyLine, PageIdLine>>, <<TagLine("1"), TextLine(1)>>) }

\* walkMarkdown(cwd): the markdown files, in directory order
walkMarkdown == <<"a.md", "b.md">>
PathNames == {"a.md", "b.md", "c.md"}

\* The storage of the remote page when the command starts.
RemoteDocs ==
  { <<>>,
    <<TopAt(1, "1", <<>>), TopAt(2, "2", <<>>)>>,
    <<TopAt(1, "1", <<"2">>)>>,
    <<TopAt(1, NoId, <<"2">>), TopAt(2, "1", <<>>)>> }

\* allMd.filter(f => !!meta.pageId && !meta.readonly)
candidates(d) ==
  SelectSeq(walkMarkdown,
            LAMBDA f : LET meta == parseHeader(d[f]).meta
                       IN meta.pageId # "" /\ ~meta.readonly)

IsSubSeq(s, t) ==
  \E pick \in SUBSET (1..Len(t)) : s = SelectSeq(t, LAMBDA f : \E k \in pick : t[k] = f)

InitUpload ==
  /\ IdleReplace /\ IdleText
  /\ disk \in { [f \in {"a.md", "b.md"} |-> IF f = "a.md" THEN a ELSE b] : a \in FilesA, b \in FilesB }
  /\ remote \in { [storage |-> d, version |-> 1] : d \in RemoteDocs }
  /\ args \in
       { [kind |-> "all", paths |-> <<>>] }
       \cup { [kind |-> "explicit", paths |-> p] : p \in SeqsUpTo(PathNames, MaxPaths) \ { <<>> } }
       \cup { [kind |-> "interactive", paths |-> p] :
                p \in { s \in SeqsUpTo({"a.md", "b.md"}, 2) : IsSubSeq(s, candidates(disk)) } }
  /\ files = <<>>
  /\ fileIdx = 0
  /\ upc = "select"
  /\ fetched = <<>>
  /\ updates = <<>>

\* Lines 99-143 and 168: the files to upload; an explicit path that does not
\* exist throws, an empty selection returns.
UploadSelect ==
  /\ upc = "select"
  /\ LET chosen ==
           IF args.kind = "all" THEN walkMarkdown
           ELSE IF args.kind = "explicit" THEN args.paths
           ELSE IF candidates(disk) = <<>> THEN <<>>
           ELSE args.paths
     IN IF args.kind = "explicit" /\ \E k \in 1..Len(chosen) : chosen[k] \notin DOMAIN disk
        THEN /\ upc' = "failed"
             /\ UNCHANGED <<files, fileIdx>>
        ELSE /\ files' = chosen
             /\ fileIdx' = 1
             /\ upc' = IF chosen = <<>> THEN "done" ELSE "loop"
  /\ UNCHANGED <<disk, remote, args, fetched, updates, replaceVars, textVars>>

\* Lines 171-175: a file without pageId, or marked READONLY, is skipped.
UploadSkip ==
  /\ upc = "loop"
  /\ fileIdx <= Len(files)
  /\ skips(parseHeader(disk[files[fileIdx]]).meta)
  /\ fileIdx' = fileIdx + 1
  /\ UNCHANGED <<disk, remote, args, files, upc, fetched, updates, replaceVars, textVars>>

\* Line 177: await client.getPageStorage(meta.pageId)
UploadFetch ==
  /\ upc = "loop"
  /\ fileIdx <= Len(files)
  /\ ~skips(parseHeader(disk[files[fileIdx]]).meta)
  /\ \/ /\ fetched' = [storageHtml |-> remote.storage, version |-> remote.version]
        /\ upc' = "fetched"
     \/ /\ upc' = "failed"
        /\ UNCHANGED fetched
  /\ UNCHANGED <<disk, remote, args, files, fileIdx, updates, replaceVars, textVars>>

\* Mutant: the update carries the version that was fetched.
nextVersionUnchanged(currentVersion) == currentVersion

\* updatePageStorage: version: { number: currentVersion + 1 }
nextVersion(currentVersion) == currentVersion + 1

\* Lines 180-254: build the outgoing document and call updatePageStorage,
\* which sends version + 1; the call throws when the server refuses.
UploadSubmit ==
  /\ upc = "fetched"
  /\ LET file == files[fileIdx]
         parsed == parseHeader(disk[file])
         o == outgoing(fetched.storageHtml, parsed.body)
         u == [idx |-> fileIdx, file |-> file, pageId |-> parsed.meta.pageId,
               base |-> fetched, via |-> o.via, html |-> o.html,
               version |-> nextVersion(fetched.version)]
     IN /\ updates' = Append(updates, u)
        /\ \/ /\ remote' = [storage |-> o.html, version |-> nextVersion(fetched.version)]
              /\ upc' = "updated"
           \/ /\ upc' = "failed"
              /\ UNCHANGED remote
  /\ UNCHANGED <<disk, args, files, fileIdx, fetched, replaceVars, textVars>>

\* Line 263: await commitFile(cwd, file), then the next iteration.
UploadCommit ==
  /\ upc = "updated"
  /\ fileIdx' = fileIdx + 1
  /\ upc' = "loop"
  /\ fetched' = <<>>
  /\ UNCHANGED <<disk, remote, args, files, updates, replaceVars, textVars>>

UploadReturn ==
  /\ upc = "loop"
  /\ fileIdx > Len(files)
  /\ upc' = "done"
  /\ UNCHANGED <<disk, remote, args, files, fileIdx, fetched, updates, replaceVars, textVars>>

NextUpload ==
  \/ UploadSelect \/ UploadSkip \/ UploadFetch \/ UploadSubmit
  \/ UploadCommit \/ UploadReturn

SpecUpload == InitUpload /\ [][NextUpload]_vars

(***************************************************************************)
(* Claims about uploadAll                                                  *)
(***************************************************************************)
\* The blocks of a file that carry a node tag, and the identifiers that
\* replaceNodesById reports missing for the file against a fetched document.
BodyOf(file) == parseHeader(disk[file]).body
TaggedBlocks(file) ==
  { k \in 1..Len(parseBlocks(BodyOf(file))) : parseBlocks(BodyOf(file))[k].tag # NoId }
SpliceOf(u) ==
  replaceNodesById(u.base.storageHtml,
                   ObjectEntries(buildReplacements(parseBlocks(BodyOf(u.file)), <<>>), KeyOrder))
UpdatesOf(k) == { n \in 1..Len(updates) : updates[n].idx = k }
Finished(k) == k < fileIdx \/ (k = fileIdx /\ upc = "updated")

\* C3: an update carries the partially replaced document only when a block
\* of the file is tagged and the missing list of replaceNodesById is empty;
\* when an identifier is missing or no block is tagged it carries the full
\* conversion of the whole body; every file the loop has uploaded has
\* exactly one update, and no iteration ever has two.
C3_PartialOrFullOncePerFile ==
  /\ \A n \in 1..Len(updates) :
       LET u == updates[n]
       IN IF TaggedBlocks(u.file) # {} /\ SpliceOf(u).missing = <<>>
          THEN u.html = SpliceOf(u).html
          ELSE u.html = markdownToStorageHtml(BodyOf(u.file))
  /\ \A k \in 1..Len(files) :
       /\ Cardinality(UpdatesOf(k)) <= 1
       /\ (Finished(k) /\ ~skips(parseHeader(disk[files[k]]).meta))
            => Cardinality(UpdatesOf(k)) = 1
       /\ skips(parseHeader(disk[files[k]]).meta) => UpdatesOf(k) = {}

\* A finished run that submitted a partially replaced document for one file
\* and fell back to the full conversion for the other.
C3_Witness ==
  /\ upc = "done"
  /\ \E m, n \in 1..Len(updates) :
       /\ updates[m].via = "partial" /\ updates[m].html # updates[m].base.storageHtml
       /\ updates[n].via = "fallback" /\ SpliceOf(updates[n]).missing # <<>>

\* The header of the file, as written, has a line READONLY inside the
\* header comment.
CarriesReadonly(file) ==
  /\ disk[file].hasHeader
  /\ \E k \in 1..headerEnd(disk[file].header) : disk[file].header[k] = ReadonlyLine

BS == "\\"
NL == "\n"
BQ == "bq"    \* the backquote character (a string of this notation cannot hold it)
IsWs(c) == c \in {" ", NL}
IsDigit(c) == c \in {"0", "1", "2", "3", "4", "5", "6", "7", "8", "9"}

At(t, i, w) == i + Len(w) - 1 <= Len(t) /\ SubSeq(t, i, i + Len(w) - 1) = w

\* End of the greedy run of lexemes satisfying P that starts at i.
RunEnd(t, i, P(_)) ==
  Min({ k \in i..(Len(t) + 1) : k = Len(t) + 1 \/ ~P(t[k]) })

\* First position >= i where the word w occurs, 0 when there is none.
IndexOf(t, i, w) ==
  LET hits == { k \in i..Len(t) : At(t, k, w) }
  IN IF hits = {} THEN 0 ELSE Min(hits)

\* String.prototype.replace with a global regular expression: matches are
\* taken leftmost first, the scan continues after each match.
ReplaceIn(t, M(_, _), R(_, _, _)) ==
  LET go[i \in 1..(Len(t) + 1)] ==
        IF i > Len(t) THEN <<>>
        ELSE LET e == M(t, i)
             IN IF e > i THEN R(t, i, e) \o go[e] ELSE <<t[i]>> \o go[i + 1]
  IN go[1]
\* (the text is evaluated once, before the scan)
ReplaceAll(text, M(_, _), R(_, _, _)) == CHOOSE r \in { ReplaceIn(t, M, R) : t \in {text} } : TRUE

(***************************************************************************)
(* unescapeMarkdownUnderscores                                             *)
(***************************************************************************)
\* The lexemes that begin with an underscore: the character itself and the
\* words of the durable tokens, one lexeme per underscore.
UnderscoreLexemes ==
  { "_", "_COMMENT", "_WIDGET", "_CMT", "_START", "_END", "_PAGE", "_LINK",
    "_STATUS", "_IMAGE", "_MENTION", "_TABLE", "_PANEL" }
IsUnderscore(x) == x \in UnderscoreLexemes
IsAsterisk(x) == x = "*"

\* /\\_/
EscapedUnderscore(t, i) ==
  IF i < Len(t) /\ t[i] = BS /\ IsUnderscore(t[i + 1]) THEN i + 2 ELSE 0

\* /\\{2,}c/ for c an underscore or an asterisk
BackslashRun(t, i, C(_)) ==
  LET e == RunEnd(t, i, LAMBDA x : x = BS)
  IN IF e - i >= 2 /\ e <= Len(t) /\ C(t[e]) THEN e + 1 ELSE 0

LineStart(t, i) == i = 1 \/ t[i - 1] = NL

\* /^(\s*\d+)\\\./m
EscapedListNumber(t, i) ==
  LET d == RunEnd(t, i, IsWs)
      e == RunEnd(t, d, IsDigit)
  IN IF LineStart(t, i) /\ e > d /\ At(t, e, <<BS, ".">>) THEN e + 2 ELSE 0

\* /^(#{1,6}\s+\d+)\\\./m
EscapedHeadingNumber(t, i) ==
  LET h == RunEnd(t, i, LAMBDA x : x = "#")
      d == RunEnd(t, h, IsWs)
      e == RunEnd(t, d, IsDigit)
  IN IF LineStart(t, i) /\ h > i /\ h - i <= 6 /\ d > h /\ e > d /\ At(t, e, <<BS, ".">>)
     THEN e + 2 ELSE 0

\* '$1.': the match without the backslash
DropBackslashBeforeDot(t, i, e) == SubSeq(t, i, e - 3) \o <<".">>

Fence == <<BQ, BQ, BQ>>

\* /BQBQBQ[^\n]*\n[\s\S]*?BQBQBQ/
FencedBlock(t, i) ==
  IF ~At(t, i, Fence) THEN 0
  ELSE LET n == RunEnd(t, i + 3, LAMBDA x : x # NL)
       IN IF n > Len(t) THEN 0
          ELSE LET q == IndexOf(t, n + 1, Fence)
               IN IF q = 0 THEN 0 ELSE q + 3

\* /BQ[^BQ]*BQ/
InlineCode(t, i) ==
  IF i <= Len(t) /\ t[i] = BQ
  THEN LET q == IndexOf(t, i + 1, <<BQ>>) IN IF q = 0 THEN 0 ELSE q + 1
  ELSE 0

\* .replace(/\\\*/g, '*')
EscapedAsterisk(t, i) == IF At(t, i, <<BS, "*">>) THEN i + 2 ELSE 0
unescapeAsterisks(t) == ReplaceAll(t, EscapedAsterisk, LAMBDA s, i, e : <<"*">>)

\* The callback of the fenced replace: the opening line is kept, the escapes
\* before '*' are removed after it (the closing fence holds none).
fencedCallback(t, i, e) ==
  LET n == RunEnd(t, i + 3, LAMBDA x : x # NL)
  IN SubSeq(t, i, n) \o unescapeAsterisks(SubSeq(t, n + 1, e - 1))

unescapeAsterisksInsideCode(markdown) ==
  ReplaceAll(ReplaceAll(markdown, FencedBlock, fencedCallback),
             InlineCode, LAMBDA s, i, e : unescapeAsterisks(SubSeq(s, i, e - 1)))

\* Mutant: step 3 drops one backslash of the run instead of collapsing it.
dropOneBackslashBeforeAsterisk(t) ==
  ReplaceAll(t, LAMBDA s, i : BackslashRun(s, i, IsAsterisk), LAMBDA s, i, e : SubSeq(s, i + 1, e - 1))

\* Step 1, Step 2 and Step 3 of unescapeMarkdownUnderscores
removeEscapedUnderscores(t) == ReplaceAll(t, EscapedUnderscore, LAMBDA s, i, e : <<s[i + 1]>>)
collapseBackslashesBeforeUnderscore(t) ==
  ReplaceAll(t, LAMBDA s, i : BackslashRun(s, i, IsUnderscore), LAMBDA s, i, e : <<BS, s[e - 1]>>)
collapseBackslashesBeforeAsterisk(t) ==
  ReplaceAll(t, LAMBDA s, i : BackslashRun(s, i, IsAsterisk), LAMBDA s, i, e : <<BS, "*">>)

\* Step 4: the escaped dot after a list number and after a heading number
unescapeListNumbers(t) == ReplaceAll(t, EscapedListNumber, DropBackslashBeforeDot)
unescapeHeadingNumbers(t) == ReplaceAll(t, EscapedHeadingNumber, DropBackslashBeforeDot)

unescapeMarkdownUnderscores(md) ==
  unescapeAsterisksInsideCode(
    unescapeHeadingNumbers(
      unescapeListNumbers(
        collapseBackslashesBeforeAsterisk(
          collapseBackslashesBeforeUnderscore(
            removeEscapedUnderscores(md))))))

(***************************************************************************)
(* The escaping normalizer applied to a text, then to its own output       *)
(***************************************************************************)
MaxPieces == 4    \* pieces an input text is put together from

RECURSIVE Flatten(_)
Flatten(ss) == IF ss = <<>> THEN <<>> ELSE Head(ss) \o Flatten(Tail(ss))
TextsOf(pieces, n) == { Flatten(ss) : ss \in SeqsUpTo(pieces, n) }

\* What turndown and decodeMdCommentTokens hand to the normalizer: escaped
\* punctuation, code spans, fenced blocks, numbered lines and headings.
EscapePieces ==
  { <<BS>>, <<"_">>, <<"*">>, <<BQ>>, Fence \o <<NL>>, Fence,
    <<"1">>, <<".">>, <<"#", " ">>, <<NL>> }

InitEscape ==
  /\ IdleReplace /\ IdleUpload
  /\ input \in TextsOf(EscapePieces, MaxPieces)
  /\ output = <<>>
  /\ stage = "call"

EscapeCall ==
  /\ stage = "call"
  /\ output' = <<unescapeMarkdownUnderscores(input)>>
  /\ stage' = "once"
  /\ UNCHANGED <<input, replaceVars, uploadVars>>

EscapeAgain ==
  /\ stage = "once"
  /\ output' = Append(output, unescapeMarkdownUnderscores(output[1]))
  /\ stage' = "twice"
  /\ UNCHANGED <<input, replaceVars, uploadVars>>

NextEscape == EscapeCall \/ EscapeAgain

SpecEscape == InitEscape /\ [][NextEscape]_vars

(***************************************************************************)
(* Claims about the escaping normalizer                                    *)
(***************************************************************************)
\* C8 (as stated): applying the normalizer to its own output changes
\* nothing, for every text.
C8_Idempotent == stage = "twice" => output[2] = output[1]

\* A run of two or more backslashes stands immediately before an underscore.
DoubleEscapedUnderscore(t) == \E i \in 1..Len(t) : At(t, i, <<BS, BS, "_">>)

\* C8 (amended): applying the normalizer to its own output changes nothing,
\* for every text in which no underscore is preceded by two or more
\* backslashes.
C8_IdempotentWithoutDoubleEscape ==
  (stage = "twice" /\ ~DoubleEscapedUnderscore(input)) => output[2] = output[1]

\* The normalizer removed escapes from a text without a double-escaped
\* underscore and was applied again to the result.
C8_Witness ==
  /\ stage = "twice"
  /\ ~DoubleEscapedUnderscore(input)
  /\ \E i \in 1..Len(input) : At(input, i, <<BS, "_">>)
  /\ output[1] # input

\* The code regions of a text, in order: the fenced blocks and, outside
\* them, the inline code spans.
CodeRegions(t) ==
  LET go[i \in 1..(Len(t) + 1)] ==
        IF i > Len(t) THEN <<>>
        ELSE LET f == FencedBlock(t, i)
                 c == InlineCode(t, i)
             IN IF f > i THEN <<SubSeq(t, i, f - 1)>> \o go[f]
                ELSE IF c > i THEN <<SubSeq(t, i, c - 1)>> \o go[c]
                ELSE go[i + 1]
  IN go[1]

\* C9: every fenced code block and every inline code span of the text comes
\* out of the normalizer character for character as it went in.
C9_CodeRegionsUntouched == stage # "call" => CodeRegions(output[1]) = CodeRegions(input)

(***************************************************************************)
(* markdownToStorageHtml: the inline conversion of a text run              *)
(***************************************************************************)
\* Lexemes that hold a character the class [^\s>] excludes.
HasWsOrGt(x) == x \in {" ", NL, ">", "-->"}

\* encodeURIComponent, lexeme by lexeme: letters, digits and - _ . ! ~ * ' ( )
\* are kept, every other character becomes a percent escape.
encodeLexeme(x) ==
  CASE x = "&" -> <<"%26">>
    [] x = "~" -> <<"~">>
    [] x = "<" -> <<"%3C">>
    [] x = ">" -> <<"%3E">>
    [] x = " " -> <<"%20">>
    [] x = "[" -> <<"%5B">>
    [] x = "]" -> <<"%5D">>
    [] x = "," -> <<"%2C">>
    [] x = "|" -> <<"%7C">>
    [] x = "%" -> <<"%25">>
    [] x = NL -> <<"%0A">>
    [] x = BS -> <<"%5C">>
    [] x = BQ -> <<"%60">>
    [] x = "#" -> <<"%23">>
    [] x = "page:" -> <<"page%3A">>
    [] x = "cell:bg:" -> <<"cell%3Abg%3A">>
    [] x = "table:bg:" -> <<"table%3Abg%3A">>
    [] OTHER -> <<x>>
encodeURIComponent(s) == Flatten([k \in 1..Len(s) |-> encodeLexeme(s[k])])

\* decodeURIComponent raises URIError on a percent sign that starts no
\* escape.  The lexeme URIError in a text stands for the exception raised at
\* that point of the evaluation: a call whose text holds it has raised.
URIError == "URIError"
Raises(t) == \E k \in 1..Len(t) : t[k] = URIError

decodeLexeme(x) ==
  CASE x = "%26" -> "&"
    [] x = "%25" -> "%"
    [] x = "%" -> URIError
    [] x = "%0A" -> NL
    [] x = "%5C" -> BS
    [] x = "%60" -> BQ
    [] x = "%23" -> "#"
    [] x = "%3C" -> "<"
    [] x = "%3E" -> ">"
    [] x = "%20" -> " "
    [] x = "%5B" -> "["
    [] x = "%5D" -> "]"
    [] x = "%2C" -> ","
    [] x = "%7C" -> "|"
    [] x = "page%3A" -> "page:"
    [] x = "cell%3Abg%3A" -> "cell:bg:"
    [] x = "table%3Abg%3A" -> "table:bg:"
    [] OTHER -> x
decodeURIComponent(s) == [k \in 1..Len(s) |-> decodeLexeme(s[k])]

\* escapeHtml: & < > become entities; quotes are left alone.
escapeLexeme(x) ==
  CASE x = "&" -> <<"&amp;">>
    [] x = "<" -> <<"&lt;">>
    [] x = ">" -> <<"&gt;">>
    [] x = "<!--" -> <<"&lt;", "!--">>
    [] x = "-->" -> <<"--", "&gt;">>
    [] x = "]]>" -> <<"]]&gt;">>
    [] OTHER -> <<x>>
escapeHtml(s) == Flatten([k \in 1..Len(s) |-> escapeLexeme(s[k])])

\* /<!--\s*word([^\s>]+)\s*-->/ : the positions [idFrom, idTo) of the
\* identifier and the end of the match; end = 0 when there is no match.
WrapperAt(t, i, word) ==
  LET w == RunEnd(t, i + 1, IsWs)
      idTo == RunEnd(t, w + 1, LAMBDA x : ~HasWsOrGt(x))
      c == RunEnd(t, idTo, IsWs)
  IN IF At(t, i, <<"<!--">>) /\ At(t, w, <<word>>) /\ idTo > w + 1 /\ At(t, c, <<"-->">>)
     THEN [idFrom |-> w + 1, idTo |-> idTo, end |-> c + 1]
     ELSE [idFrom |-> 0, idTo |-> 0, end |-> 0]

\* The words of the comment-range tokens
CmtStart == <<"_CMT", "_START">>
CmtEnd == <<"_CMT", "_END">>

Token(words, enc) == <<"MD">> \o words \o <<"(">> \o enc \o <<")">>

wrapperToToken(t, word, tokenWord) ==
  ReplaceAll(t, LAMBDA s, i : WrapperAt(s, i, word).end,
             LAMBDA s, i, e :
               LET m == WrapperAt(s, i, word)
               IN Token(tokenWord, encodeURIComponent(SubSeq(s, m.idFrom, m.idTo - 1))))

replaceCommentWrapperCommentsWithTokens(s) ==
  wrapperToToken(wrapperToToken(s, "comment:", CmtStart), "commend-end:", CmtEnd)

\* /MD(?:\\)?word\(([^)]+)\)/ : the positions [argFrom, argTo) of the
\* payload and the end of the match.
TokenAt(t, i, words) ==
  LET w == IF At(t, i + 1, <<BS>>) THEN i + 2 ELSE i + 1
      argFrom == w + Len(words) + 1
      argTo == RunEnd(t, argFrom, LAMBDA x : x # ")")
  IN IF At(t, i, <<"MD">>) /\ At(t, w, words \o <<"(">>) /\ argTo > argFrom /\ argTo <= Len(t)
     THEN [argFrom |-> argFrom, argTo |-> argTo, end |-> argTo + 1]
     ELSE [argFrom |-> 0, argTo |-> 0, end |-> 0]

\* /MD(?:\\)?_CMT_END\(\1\)/ at position j, \1 being the payload enc
EndTokenAt(t, j, enc) ==
  LET w == IF At(t, j + 1, <<BS>>) THEN j + 2 ELSE j + 1
  IN IF At(t, j, <<"MD">>) /\ At(t, w, CmtEnd \o <<"(">> \o enc \o <<")">>)
     THEN w + Len(CmtEnd) + 1 + Len(enc) + 1
     ELSE 0

\* pairRe: a start token, the shortest inner text, the end token of the
\* same payload.  [argFrom, argTo, innerTo, end]
NoPair == [argFrom |-> 0, argTo |-> 0, innerFrom |-> 0, innerTo |-> 0, end |-> 0]
pairEnds(t, st, enc) == { j \in st.end..Len(t) : EndTokenAt(t, j, enc) > 0 }
pairUpTo(t, st, enc, ends) ==
  IF ends = {} THEN NoPair
  ELSE [argFrom |-> st.argFrom, argTo |-> st.argTo, innerFrom |-> st.end,
        innerTo |-> Min(ends), end |-> EndTokenAt(t, Min(ends), enc)]
pairWith(t, st, enc) == pairUpTo(t, st, enc, pairEnds(t, st, enc))
pairFrom(t, st) ==
  IF st.end = 0 THEN NoPair ELSE pairWith(t, st, SubSeq(t, st.argFrom, st.argTo - 1))
PairAt(t, i) == pairFrom(t, TokenAt(t, i, CmtStart))

MarkerOpen(id) == <<"<ac:inline-comment-marker ac:ref=\"">> \o escapeHtml(id) \o <<"\">">>
MarkerClose == <<"</ac:inline-comment-marker>">>

pairMarkup(s, m) ==
  MarkerOpen(decodeURIComponent(SubSeq(s, m.argFrom, m.argTo - 1)))
  \o SubSeq(s, m.innerFrom, m.innerTo - 1) \o MarkerClose
wrapPairs(t) ==
  ReplaceAll(t, LAMBDA s, i : PairAt(s, i).end, LAMBDA s, i, e : pairMarkup(s, PairAt(s, i)))

\* do { prev = out; out = out.replace(pairRe, ...) } while (out !== prev)
RECURSIVE wrapUntilStable(_)
stableOr(t, out) == IF out = t THEN t ELSE wrapUntilStable(out)
wrapUntilStable(t) == stableOr(t, wrapPairs(t))

dropTokens(t, word) ==
  ReplaceAll(t, LAMBDA s, i : TokenAt(s, i, word).end, LAMBDA s, i, e : <<>>)

wrapCommentTokenRangesToInlineMarkers(s) ==
  dropTokens(dropTokens(wrapUntilStable(s), CmtStart), CmtEnd)

\* /BQ([^BQ]+)BQ/ -> <code>inner</code>
CodeSpanAt(t, i) ==
  LET q == IndexOf(t, i + 1, <<BQ>>)
  IN IF At(t, i, <<BQ>>) /\ q > i + 1 THEN q + 1 ELSE 0

\* /\*\*([^*]+)\*\*/ -> <strong>inner</strong>
BoldAt(t, i) ==
  LET e == RunEnd(t, i + 2, LAMBDA x : x # "*")
  IN IF At(t, i, <<"*", "*">>) /\ e > i + 2 /\ At(t, e, <<"*", "*">>) THEN e + 2 ELSE 0

\* /\[([^\]]+)\]\(([^)]+)\)/ : [textTo, hrefTo, end]
LinkAt(t, i) ==
  LET textTo == RunEnd(t, i + 1, LAMBDA x : x # "]")
      hrefTo == RunEnd(t, textTo + 2, LAMBDA x : x # ")")
  IN IF At(t, i, <<"[">>) /\ textTo > i + 1 /\ At(t, textTo, <<"]", "(">>)
        /\ hrefTo > textTo + 2 /\ hrefTo <= Len(t)
     THEN [textTo |-> textTo, hrefTo |-> hrefTo, end |-> hrefTo + 1]
     ELSE [textTo |-> 0, hrefTo |-> 0, end |-> 0]

PlainLinkBody(text) == <<"<ac:plain-text-link-body><![CDATA[">> \o text \o <<"]]></ac:plain-text-link-body></ac:link>">>

\* The callback of the link replace: page:, #attachment: or a plain anchor.
linkHtml(text, href) ==
  IF Head(href) = "page:"
  THEN LET ref == Tail(href)
           colons == { k \in 1..Len(ref) : ref[k] = ":" }
       IN IF colons # {} /\ Min(colons) > 1
          THEN <<"<ac:link><ri:page ri:space-key=\"">> \o escapeHtml(SubSeq(ref, 1, Min(colons) - 1))
               \o <<"\" ri:content-title=\"">> \o escapeHtml(SubSeq(ref, Min(colons) + 1, Len(ref)))
               \o <<"\"/>">> \o PlainLinkBody(text)
          ELSE <<"<ac:link><ri:page ri:content-title=\"">> \o escapeHtml(ref)
               \o <<"\"/>">> \o PlainLinkBody(text)
  ELSE IF Head(href) = "#attachment:"
  THEN <<"<ac:link><ri:attachment ri:filename=\"">> \o escapeHtml(Tail(href))
       \o <<"\"/>">> \o PlainLinkBody(text)
  ELSE <<"<a href=\"">> \o escapeHtml(href) \o <<"\">">> \o text \o <<"</a>">>

\* inlineHtml(s): escaped asterisks are protected, raw markup is escaped,
\* then code spans, bold and links are converted.  (The image rule needs
\* the lexeme "!", which no text of this model holds.)
protectStars(s) == ReplaceAll(s, EscapedAsterisk, LAMBDA t, i, e : <<"MD_ESC_STAR">>)
codeSpans(s) ==
  ReplaceAll(s, CodeSpanAt, LAMBDA t, i, e : <<"<code>">> \o SubSeq(t, i + 1, e - 2) \o <<"</code>">>)
boldSpans(s) ==
  ReplaceAll(s, BoldAt, LAMBDA t, i, e : <<"<strong>">> \o SubSeq(t, i + 2, e - 3) \o <<"</strong>">>)
links(s) ==
  ReplaceAll(s, LAMBDA t, i : LinkAt(t, i).end,
             LAMBDA t, i, e :
               LET m == LinkAt(t, i)
               IN linkHtml(SubSeq(t, i + 1, m.textTo - 1), SubSeq(t, m.textTo + 2, m.hrefTo - 1)))
restoreStars(s) == [k \in 1..Len(s) |-> IF s[k] = "MD_ESC_STAR" THEN "*" ELSE s[k]]
inlineHtml(s) == restoreStars(links(boldSpans(codeSpans(escapeHtml(protectStars(s))))))

\* /<!--\s*mention:([^\s>]+)\s+([\s\S]*?)\s*-->/ : [idTo, labelFrom, end]
MentionAt(t, i) ==
  LET w == RunEnd(t, i + 1, IsWs)
      idTo == RunEnd(t, w + 1, LAMBDA x : ~HasWsOrGt(x))
      labelFrom == RunEnd(t, idTo, IsWs)
      close == IndexOf(t, labelFrom, <<"-->">>)
  IN IF At(t, i, <<"<!--">>) /\ At(t, w, <<"mention:">>) /\ idTo > w + 1
        /\ labelFrom > idTo /\ close > 0
     THEN [idFrom |-> w + 1, idTo |-> idTo, labelFrom |-> labelFrom, close |-> close, end |-> close + 1]
     ELSE [idFrom |-> 0, idTo |-> 0, labelFrom |-> 0, close |-> 0, end |-> 0]

\* s.split(':').pop() || s
lastSegment(s) ==
  LET colons == { k \in 1..Len(s) : s[k] = ":" }
      last == IF colons = {} THEN s
              ELSE SubSeq(s, Min({ k \in colons : \A c \in colons : c <= k }) + 1, Len(s))
  IN IF last = <<>> THEN s ELSE last

\* selectAccountId: the first candidate that holds a UUID, else the last
\* segment of the id.  The lexeme "UUID" stands for a UUID-shaped word.
selectAccountId(id, label) ==
  LET cands == <<id, label, lastSegment(id), lastSegment(label)>>
      uuid == { k \in 1..4 : \E n \in 1..Len(cands[k]) : cands[k][n] = "UUID" }
  IN IF uuid # {} THEN cands[Min(uuid)] ELSE lastSegment(id)

trimEnd(s) == SubSeq(s, 1, Len(s) + 1 - RunEnd([k \in 1..Len(s) |-> s[Len(s) + 1 - k]], 1, IsWs))
trimStart(s) == SubSeq(s, RunEnd(s, 1, IsWs), Len(s))
trim(s) == trimStart(trimEnd(s))

replaceMentionCommentsWithTokens(s) ==
  ReplaceAll(s, LAMBDA t, i : MentionAt(t, i).end,
             LAMBDA t, i, e :
               LET m == MentionAt(t, i)
               IN Token(<<"_MENTION">>,
                        encodeURIComponent(selectAccountId(SubSeq(t, m.idFrom, m.idTo - 1),
                                                           trimEnd(SubSeq(t, m.labelFrom, m.close - 1))))))

\* /MD(?:\\)?_MENTION\(([^)]+)\)(?:\\)?\[[^\]]*\]/
LabelledMentionAt(t, i) ==
  LET m == TokenAt(t, i, <<"_MENTION">>)
      b == IF At(t, m.end, <<BS>>) THEN m.end + 1 ELSE m.end
      c == RunEnd(t, b + 1, LAMBDA x : x # "]")
  IN IF m.end > 0 /\ At(t, b, <<"[">>) /\ c <= Len(t) THEN c + 1 ELSE 0

mentionMacro(t, i) ==
  LET m == TokenAt(t, i, <<"_MENTION">>)
  IN <<"<ac:link><ri:user ri:account-id=\"">>
     \o escapeHtml(decodeURIComponent(SubSeq(t, m.argFrom, m.argTo - 1)))
     \o <<"\"/></ac:link>">>

replaceMentionTokensWithMacros(s) ==
  LET labelled == ReplaceAll(s, LabelledMentionAt, LAMBDA t, i, e : mentionMacro(t, i))
  IN ReplaceAll(labelled, LAMBDA t, i : TokenAt(t, i, <<"_MENTION">>).end,
                LAMBDA t, i, e : mentionMacro(t, i))

(***************************************************************************)
(* markdownToStorageHtml on one block that holds a text run: a paragraph,  *)
(* a heading or a bullet-list item                                         *)
(***************************************************************************)
StartMarker(id) == <<"<!--", " ", "comment:">> \o id \o <<" ", "-->">>
EndMarker(id) == <<"<!--", " ", "commend-end:">> \o id \o <<" ", "-->">>

\* Identifiers of comment ranges: a plain one, one that needs a percent
\* escape, and two that hold a closing parenthesis.
MarkerIds == { <<"c">>, <<"&">>, <<"c", ")">>, <<")">> }
ReversePieces ==
  { <<"t">> } \cup { StartMarker(x) : x \in MarkerIds } \cup { EndMarker(x) : x \in MarkerIds }

\* The token, inline and wrapping passes shared by paragraphs and headings.
convertRun(text) ==
  wrapCommentTokenRangesToInlineMarkers(
    replaceMentionTokensWithMacros(
      inlineHtml(
        replaceCommentWrapperCommentsWithTokens(replaceMentionCommentsWithTokens(text)))))

paragraphHtml(paraText) == <<"<p>">> \o convertRun(trim(paraText)) \o <<"</p>">>
headingHtml(text) == <<"<h1>">> \o convertRun(trim(text)) \o <<"</h1>">>

\* items.push of the list branch: <li> inlineHtml(itemText) </li>
listHtml(itemText) == <<"<ul>", "<li>">> \o inlineHtml(itemText) \o <<"</li>", "</ul>">>

InitReverse ==
  /\ IdleReplace /\ IdleUpload
  /\ input \in { [kind |-> k, text |-> t] :
                   k \in {"paragraph", "heading", "list"},
                   t \in TextsOf(ReversePieces, MaxPieces) \ { <<>> } }
  /\ output = <<>>
  /\ stage = "call"

ConvertParagraph ==
  /\ stage = "call" /\ input.kind = "paragraph"
  /\ output' = paragraphHtml(input.text)
  /\ stage' = "done"
  /\ UNCHANGED <<input, replaceVars, uploadVars>>

ConvertHeading ==
  /\ stage = "call" /\ input.kind = "heading"
  /\ output' = headingHtml(input.text)
  /\ stage' = "done"
  /\ UNCHANGED <<input, replaceVars, uploadVars>>

ConvertListItem ==
  /\ stage = "call" /\ input.kind = "list"
  /\ output' = listHtml(input.text)
  /\ stage' = "done"
  /\ UNCHANGED <<input, replaceVars, uploadVars>>

NextReverse == ConvertParagraph \/ ConvertHeading \/ ConvertListItem

SpecReverse == InitReverse /\ [][NextReverse]_vars

(***************************************************************************)
(* Claims about comment-range markers                                      *)
(***************************************************************************)
Occurrences(t, w) == { i \in 1..Len(t) : At(t, i, w) }

\* C6: a text run with one start marker of identifier x and, later, one end
\* marker of x comes out with exactly one wrapping construct whose ref is
\* x; when only text stands between the two markers, the construct
\* encloses the conversion of that text.
C6_PairBecomesOneWrapper ==
  stage = "done" =>
    \A x \in MarkerIds :
      LET starts == Occurrences(input.text, StartMarker(x))
          ends == Occurrences(input.text, EndMarker(x))
          between == SubSeq(input.text, Min(starts) + Len(StartMarker(x)), Min(ends) - 1)
      IN (Cardinality(starts) = 1 /\ Cardinality(ends) = 1 /\ Min(starts) < Min(ends))
           => /\ Cardinality(Occurrences(output, MarkerOpen(x))) = 1
              /\ Occurrences(between, <<"<!--">>) = {}
                   => Occurrences(output, MarkerOpen(x) \o inlineHtml(between) \o MarkerClose) # {}

\* C7: whatever the arrangement and the identifiers of the markers, the
\* emitted markup holds no comment-range marker: no durable token and no
\* literal (escaped or raw) wrapper comment.
C7_NoMarkerLeft ==
  stage = "done" =>
    \A k \in 1..Len(output) :
      output[k] \notin {"_CMT", "comment:", "commend-end:"}

(***************************************************************************)
(* normalizeMacros: storage constructs become durable tokens.              *)
(*                                                                         *)
(* Storage markup is a text whose tags are lexemes; a tag with an          *)
(* attribute value is written as an opening lexeme, the lexemes of the     *)
(* value and a closing lexeme.  The storage texts of this model hold       *)
(* status macros, user mentions, page links, images, the TOC macro, paired *)
(* inline comment markers and comments; the rules for the other macros     *)
(* find nothing to match in them.                                          *)
(***************************************************************************)
StatusOpen == "<ac:structured-macro ac:name=\"status\">"
MacroClose == "</ac:structured-macro>"
TitleParamOpen == "<ac:parameter ac:name=\"title\">"
ColourParamOpen == "<ac:parameter ac:name=\"colour\">"
ParamClose == "</ac:parameter>"
LinkOpen == "<ac:link>"
LinkClose == "</ac:link>"
UserOpen == "<ri:user ri:account-id=\""
PageOpen == "<ri:page ri:content-title=\""
PageSpaceOpen == "<ri:page ri:space-key=\""
TitleAttr == "\" ri:content-title=\""
LinkBodyOpen == "<ac:plain-text-link-body><![CDATA["
LinkBodyClose == "]]></ac:plain-text-link-body>"
ImageOpen == "<ac:image>"
ImageClose == "</ac:image>"
UrlOpen == "<ri:url ri:value=\""
AttrEnd == "\"/>"
TocMacro == "<ac:structured-macro ac:name=\"toc\"/>"
UnknownOpen == "<ac:structured-macro ac:name=\"zzz\">"    \* a macro no rule knows
MarkerRefOpen == "<ac:inline-comment-marker ac:ref=\""
MarkerRefEnd == "\">"

PlainBodyOpen == "<ac:plain-text-body>"
PlainBodyClose == "</ac:plain-text-body>"
CodeOpen == "<ac:structured-macro ac:name=\"code\">"
LangParamOpen == "<ac:parameter ac:name=\"language\">"

WholeTags ==
  { StatusOpen, MacroClose, TitleParamOpen, ColourParamOpen, ParamClose, LinkOpen, LinkClose,
    ImageOpen, ImageClose, TocMacro, UnknownOpen, "</ac:inline-comment-marker>",
    "<p>", "</p>", "<br/>", "<div>", "</div>" }
OpeningLexemes == { UserOpen, PageOpen, PageSpaceOpen, UrlOpen, MarkerRefOpen, "<!--", "<" }
HoldsGt(x) == x \in WholeTags \cup { AttrEnd, MarkerRefEnd, LinkBodyOpen, LinkBodyClose, "-->", ">" }
HoldsQuote(x) ==
  x \in { AttrEnd, MarkerRefEnd, StatusOpen, TitleParamOpen, ColourParamOpen, TocMacro, UnknownOpen,
          UserOpen, PageOpen, PageSpaceOpen, TitleAttr, UrlOpen, MarkerRefOpen }

\* /<[^>]+>/ : from a lexeme that opens a tag to the first one holding ">"
TagAt(t, i) ==
  IF i > Len(t) THEN 0
  ELSE IF t[i] \in WholeTags THEN i + 1
  ELSE IF t[i] \in OpeningLexemes
  THEN LET closing == { k \in (i + 1)..Len(t) : HoldsGt(t[k]) }
       IN IF closing = {} THEN 0 ELSE Min(closing) + 1
  ELSE 0
stripTags(t) == ReplaceAll(t, TagAt, LAMBDA s, i, e : <<>>)

\* /<open ...>([\s\S]*?)<close>/ : an element from its opening lexeme to
\* the first closing lexeme
ElementAt(t, i, open, close) ==
  LET q == IndexOf(t, i + 1, <<close>>)
  IN IF At(t, i, <<open>>) /\ q > 0 THEN q + 1 ELSE 0

\* inner.match(/attr=["']([^"']+)["']/)?.[1] || '' : the value after the
\* first opening lexeme of the attribute
attrValue(inner, open) ==
  LET at == IndexOf(inner, 1, <<open>>)
      to == RunEnd(inner, at + 1, LAMBDA x : ~HoldsQuote(x))
  IN IF at = 0 \/ to > Len(inner) THEN <<>> ELSE SubSeq(inner, at + 1, to - 1)

\* (inner.match(/<ac:parameter ... name>([\s\S]*?)<\/ac:parameter>/)?.[1] || '')
\*   .replace(/<[^>]+>/g, '').trim()
paramValue(inner, open) ==
  LET at == IndexOf(inner, 1, <<open>>)
      to == IndexOf(inner, at + 1, <<ParamClose>>)
  IN IF at = 0 \/ to = 0 THEN <<>> ELSE trim(stripTags(SubSeq(inner, at + 1, to - 1)))

BracketToken(word, enc, encBody) == Token(<<word>>, enc) \o <<"[">> \o encBody \o <<"]">>
LinkToken(words, encRef, encText) ==
  <<"MD">> \o words \o <<"~", "~">> \o encRef \o <<"~", "~">> \o encText \o <<"~", "~", "END">>

toLowerCaseLexeme(x) ==
  CASE x = "Green" -> "green"
    [] x = "TOC" -> "toc"
    [] x = "Info" -> "info"
    [] x = "Red" -> "red"
    [] OTHER -> x
toLowerCase(s) == [k \in 1..Len(s) |-> toLowerCaseLexeme(s[k])]

statusToken(inner) ==
  BracketToken("_STATUS", encodeURIComponent(toLowerCase(paramValue(inner, ColourParamOpen))),
               encodeURIComponent(paramValue(inner, TitleParamOpen)))

\* The attributes and the body of a page link
contentTitleOf(inner) ==
  IF IndexOf(inner, 1, <<PageOpen>>) > 0 THEN attrValue(inner, PageOpen) ELSE attrValue(inner, TitleAttr)
spaceKeyOf(inner) == attrValue(inner, PageSpaceOpen)
linkBodyOf(inner) ==
  LET at == IndexOf(inner, 1, <<LinkBodyOpen>>)
      to == IndexOf(inner, at + 1, <<LinkBodyClose>>)
  IN IF at = 0 \/ to = 0 THEN <<>> ELSE SubSeq(inner, at + 1, to - 1)
pageRefOf(spaceKey, contentTitle) ==
  IF spaceKey # <<>> THEN <<"page:">> \o spaceKey \o <<":">> \o contentTitle
  ELSE <<"page:">> \o contentTitle
linkTextOf(inner) ==
  IF trim(stripTags(linkBodyOf(inner))) # <<>> THEN trim(stripTags(linkBodyOf(inner)))
  ELSE contentTitleOf(inner)
pageLinkToken(inner) ==
  LinkToken(<<"_PAGE", "_LINK">>,
            encodeURIComponent(pageRefOf(spaceKeyOf(inner), contentTitleOf(inner))),
            encodeURIComponent(linkTextOf(inner)))

\* The callback of the ac:link replace: user mention, page link, or as is.
linkToken(m) ==
  LET inner == SubSeq(m, 2, Len(m) - 1)
  IN IF IndexOf(inner, 1, <<UserOpen>>) > 0
     THEN BracketToken("_MENTION", encodeURIComponent(attrValue(inner, UserOpen)),
                       encodeURIComponent(trim(stripTags(inner))))
     ELSE IF IndexOf(inner, 1, <<PageOpen>>) > 0 \/ IndexOf(inner, 1, <<PageSpaceOpen>>) > 0
     THEN pageLinkToken(inner)
     ELSE m

imageToken(m) ==
  LET ref == attrValue(SubSeq(m, 2, Len(m) - 1), UrlOpen)
  IN IF ref = <<>> THEN m
     ELSE BracketToken("_IMAGE", encodeURIComponent(ref), encodeURIComponent(<<>>))

\* /<ac:inline-comment-marker ac:ref=["']([^"']+)["'][^>]*>([\s\S]*?)<\/ac:inline-comment-marker>/
PairedMarkerAt(t, i) ==
  LET refTo == RunEnd(t, i + 1, LAMBDA x : ~HoldsQuote(x))
      close == IndexOf(t, refTo + 1, MarkerClose)
  IN IF At(t, i, <<MarkerRefOpen>>) /\ refTo > i + 1 /\ At(t, refTo, <<MarkerRefEnd>>) /\ close > 0
     THEN [refTo |-> refTo, close |-> close, end |-> close + 1]
     ELSE [refTo |-> 0, close |-> 0, end |-> 0]

\* /<ac:[^>]+>/ and /<\/ac:[^>]+>/
AcTagAt(t, i) ==
  IF i <= Len(t) /\ t[i] \in { StatusOpen, MacroClose, TitleParamOpen, ColourParamOpen, ParamClose, LinkOpen,
                               LinkClose, ImageOpen, ImageClose, TocMacro, UnknownOpen,
                               "</ac:inline-comment-marker>", MarkerRefOpen }
  THEN TagAt(t, i) ELSE 0

\* /<!--\s*([\s\S]*?)\s*-->/ : [innerFrom, innerTo, end]
CommentAt(t, i) ==
  LET from == RunEnd(t, i + 1, IsWs)
      close == IndexOf(t, i + 1, <<"-->">>)
  IN IF At(t, i, <<"<!--">>) /\ close > 0
     THEN [innerFrom |-> from, close |-> close, end |-> close + 1]
     ELSE [innerFrom |-> 0, close |-> 0, end |-> 0]

\* decodeBasicEntities
decodeEntity(x) ==
  CASE x = "&lt;" -> "<"
    [] x = "&gt;" -> ">"
    [] x = "&amp;" -> "&"
    [] x = "&nbsp;" -> " "
    [] x = "]]&gt;" -> "]]>"
    [] OTHER -> x
decodeBasicEntities(s) == [k \in 1..Len(s) |-> decodeEntity(s[k])]

\* body.match(/^\s*<!\[CDATA\[([\s\S]*?)\]\]>\s*$/) : the text inside the
\* CDATA section, the entity-decoded body when there is none
unwrapCdata(body) ==
  IF trim(body) # <<>> /\ Head(trim(body)) = "<![CDATA[" /\ trim(body)[Len(trim(body))] = "]]>"
     /\ Len(trim(body)) >= 2
  THEN SubSeq(trim(body), 2, Len(trim(body)) - 1)
  ELSE decodeBasicEntities(body)

\* inner.match(/<ac:plain-text-body[^>]*>([\s\S]*?)<\/ac:plain-text-body>/)?.[1] || ""
plainTextBody(inner) ==
  LET at == IndexOf(inner, 1, <<PlainBodyOpen>>)
      to == IndexOf(inner, at + 1, <<PlainBodyClose>>)
  IN IF at = 0 \/ to = 0 THEN <<>> ELSE SubSeq(inner, at + 1, to - 1)

\* The callback of the code macro replace
codeToken(inner) ==
  BracketToken("_CODE", encodeURIComponent(paramValue(inner, LangParamOpen)),
               encodeURIComponent(unwrapCdata(plainTextBody(inner))))

\* The rules of normalizeMacros that find something in these texts, in the
\* order of the source.
statusTokens(html) ==
  ReplaceAll(html, LAMBDA s, i : ElementAt(s, i, StatusOpen, MacroClose),
             LAMBDA s, i, e : statusToken(SubSeq(s, i + 1, e - 2)))
linkTokens(html) ==
  ReplaceAll(html, LAMBDA s, i : ElementAt(s, i, LinkOpen, LinkClose),
             LAMBDA s, i, e : linkToken(SubSeq(s, i, e - 1)))
imageTokens(html) ==
  ReplaceAll(html, LAMBDA s, i : ElementAt(s, i, ImageOpen, ImageClose),
             LAMBDA s, i, e : imageToken(SubSeq(s, i, e - 1)))
codeTokens(html) ==
  ReplaceAll(html, LAMBDA s, i : ElementAt(s, i, CodeOpen, MacroClose),
             LAMBDA s, i, e : codeToken(SubSeq(s, i + 1, e - 2)))
tocTokens(html) ==
  ReplaceAll(html, LAMBDA s, i : IF At(s, i, <<TocMacro>>) THEN i + 1 ELSE 0,
             LAMBDA s, i, e : Token(<<"_WIDGET">>, <<"toc">>))
markerTokens(html) ==
  ReplaceAll(html, LAMBDA s, i : PairedMarkerAt(s, i).end,
             LAMBDA s, i, e :
               LET m == PairedMarkerAt(s, i)
                   enc == encodeURIComponent(SubSeq(s, i + 1, m.refTo - 1))
               IN Token(CmtStart, enc) \o SubSeq(s, m.refTo + 1, m.close - 1)
                  \o Token(CmtEnd, enc))
stripAcTags(html) == ReplaceAll(html, AcTagAt, LAMBDA s, i, e : <<>>)
commentTokens(html) ==
  ReplaceAll(html, LAMBDA s, i : CommentAt(s, i).end,
             LAMBDA s, i, e :
               LET m == CommentAt(s, i)
               IN Token(<<"_COMMENT">>,
                        encodeURIComponent(IF m.innerFrom >= m.close THEN <<>>
                                           ELSE trimEnd(SubSeq(s, m.innerFrom, m.close - 1)))))

normalizeMacros(html) ==
  commentTokens(stripAcTags(markerTokens(tocTokens(codeTokens(
    imageTokens(linkTokens(statusTokens(html))))))))

(***************************************************************************)
(* turndown: the markdown of a block element whose content is text (the    *)
(* tokens of normalizeMacros are text).  The library parses the markup     *)
(* (entities become characters), collapses white space, escapes the        *)
(* characters of markdown syntax in the text, and trims the result.        *)
(***************************************************************************)
\* Runs of white space become one space.
collapseWhitespace(t) == ReplaceAll(t, LAMBDA s, i : IF i <= Len(s) /\ IsWs(s[i]) THEN RunEnd(s, i, IsWs) ELSE 0,
                                    LAMBDA s, i, e : <<" ">>)

\* The escapes of the library that apply anywhere in a text: a backslash
\* is put before \ * BQ [ ] and before every underscore.
turndownEscapeLexeme(x) ==
  IF x \in { BS, "*", BQ, "[", "]" } \/ IsUnderscore(x) THEN <<BS, x>> ELSE <<x>>

\* The escapes that apply at the start of a text: - > and "digits. "
turndownEscapeStart(t) ==
  LET d == RunEnd(t, 1, IsDigit)
  IN IF t = <<>> THEN t
     ELSE IF t[1] \in { "-", ">" } THEN <<BS>> \o t
     ELSE IF d > 1 /\ At(t, d, <<".", " ">>) THEN SubSeq(t, 1, d - 1) \o <<BS>> \o SubSeq(t, d, Len(t))
     ELSE t

turndownEscape(t) ==
  turndownEscapeStart(Flatten([k \in 1..Len(t) |-> turndownEscapeLexeme(t[k])]))

turndown(inner) == trim(turndownEscape(trim(collapseWhitespace(decodeBasicEntities(inner)))))

(***************************************************************************)
(* decodeMdCommentTokens                                                   *)
(***************************************************************************)
Comment(body) == <<"<!--", " ">> \o body \o <<" ", "-->">>

toUpperCaseLexeme(x) == IF x = "toc" THEN "TOC" ELSE x
toUpperCase(s) == [k \in 1..Len(s) |-> toUpperCaseLexeme(s[k])]

NoBracketMatch == [argFrom |-> 0, argTo |-> 0, bodyFrom |-> 0, bodyTo |-> 0, end |-> 0]

\* /MD(?:\\)?word\(([^)]*)\)(?:\\)?\[([\s\S]*?)(?:\\)?\]/
BracketTokenAt(t, i, word) ==
  LET w == IF At(t, i + 1, <<BS>>) THEN i + 2 ELSE i + 1
      argTo == RunEnd(t, w + 2, LAMBDA x : x # ")")
      b == IF At(t, argTo + 1, <<BS>>) THEN argTo + 2 ELSE argTo + 1
      closes == { k \in (b + 1)..Len(t) : At(t, k, <<"]">>) \/ At(t, k, <<BS, "]">>) }
  IN IF At(t, i, <<"MD">>) /\ At(t, w, <<word, "(">>) /\ argTo <= Len(t)
        /\ At(t, b, <<"[">>) /\ closes # {}
     THEN LET k == Min(closes)
          IN [argFrom |-> w + 2, argTo |-> argTo, bodyFrom |-> b + 1, bodyTo |-> k,
              end |-> IF t[k] = BS THEN k + 2 ELSE k + 1]
     ELSE NoBracketMatch

\* /MD(?:\\)?_PAGE(?:\\)?_LINK~~([^~]+)~~([^~]+)~~END/
PageLinkAt(t, i) ==
  LET w == IF At(t, i + 1, <<BS>>) THEN i + 2 ELSE i + 1
      l == IF At(t, w + 1, <<BS>>) THEN w + 2 ELSE w + 1
      refTo == RunEnd(t, l + 3, LAMBDA x : x # "~")
      textTo == RunEnd(t, refTo + 2, LAMBDA x : x # "~")
  IN IF At(t, i, <<"MD">>) /\ At(t, w, <<"_PAGE">>) /\ At(t, l, <<"_LINK", "~", "~">>)
        /\ refTo > l + 3 /\ At(t, refTo, <<"~", "~">>)
        /\ textTo > refTo + 2 /\ At(t, textTo, <<"~", "~", "END">>)
     THEN [argFrom |-> l + 3, argTo |-> refTo, bodyFrom |-> refTo + 2, bodyTo |-> textTo,
           end |-> textTo + 3]
     ELSE NoBracketMatch

orDefault(s, default) == IF s = <<>> THEN default ELSE s

decodeToken(t, words, R(_)) ==
  ReplaceAll(t, LAMBDA s, i : TokenAt(s, i, words).end,
             LAMBDA s, i, e : LET m == TokenAt(s, i, words)
                              IN R(SubSeq(s, m.argFrom, m.argTo - 1)))

decodeBracketToken(t, M(_, _), R(_, _)) ==
  ReplaceAll(t, LAMBDA s, i : M(s, i).end,
             LAMBDA s, i, e : LET m == M(s, i)
                              IN R(decodeURIComponent(SubSeq(s, m.argFrom, m.argTo - 1)),
                                   decodeURIComponent(SubSeq(s, m.bodyFrom, m.bodyTo - 1))))

\* /(\S)<!--\s*word/ -> '$1 <!-- word'
GluedWrapperAt(t, i, word) ==
  LET w == RunEnd(t, i + 2, IsWs)
  IN IF i < Len(t) /\ ~IsWs(t[i]) /\ t[i + 1] = "<!--" /\ At(t, w, <<word>>) THEN w + 1 ELSE 0
unglueWrapper(t, word) ==
  ReplaceAll(t, LAMBDA s, i : GluedWrapperAt(s, i, word),
             LAMBDA s, i, e : <<s[i], " ", "<!--", " ", word>>)

\* /-->\s*(\S)/ -> '--> $1'
GluedCloseAt(t, i) ==
  LET w == RunEnd(t, i + 1, IsWs)
  IN IF At(t, i, <<"-->">>) /\ w <= Len(t) THEN w + 1 ELSE 0

\* The replaces of decodeMdCommentTokens that find something in these
\* texts, in the order of the source.
decodeComments(s) == decodeToken(s, <<"_COMMENT">>, LAMBDA enc : Comment(decodeURIComponent(enc)))
decodeWidgets(s) ==
  decodeToken(s, <<"_WIDGET">>, LAMBDA name : Comment(<<"widget:">> \o toUpperCase(name)))
decodeStarts(s) ==
  decodeToken(s, CmtStart, LAMBDA enc : Comment(<<"comment:">> \o decodeURIComponent(enc)))
decodeEnds(s) ==
  decodeToken(s, CmtEnd, LAMBDA enc : Comment(<<"commend-end:">> \o decodeURIComponent(enc)))
decodePageLinks(s) ==
  decodeBracketToken(s, PageLinkAt,
    LAMBDA pageRef, linkText : <<"[">> \o linkText \o <<"]", "(">> \o pageRef \o <<")">>)
decodeStatuses(s) ==
  decodeBracketToken(s, LAMBDA t, i : BracketTokenAt(t, i, "_STATUS"),
    LAMBDA color, title : Comment(<<"status:">> \o orDefault(color, <<"grey">>)
                                  \o <<":">> \o orDefault(title, <<"Status">>)))
decodeImages(s) ==
  decodeBracketToken(s, LAMBDA t, i : BracketTokenAt(t, i, "_IMAGE"),
    LAMBDA ref, cap : <<"!", "[">> \o cap \o <<"]", "(">> \o ref \o <<")">>)
decodeMentions(s) ==
  decodeBracketToken(s, LAMBDA t, i : BracketTokenAt(t, i, "_MENTION"),
    LAMBDA id, vis : Comment(<<"mention:">> \o id \o <<" ">> \o orDefault(vis, id)))
decodeCode(s) ==
  decodeBracketToken(s, LAMBDA t, i : BracketTokenAt(t, i, "_CODE"),
    LAMBDA lang, body : Fence \o lang \o <<NL>> \o body \o <<NL>> \o Fence)
normalizeSpacing(s) ==
  ReplaceAll(unglueWrapper(unglueWrapper(s, "comment:"), "commend-end:"),
             GluedCloseAt, LAMBDA t, i, e : <<"-->", " ", t[e - 1]>>)

decodeMdCommentTokens(s) ==
  normalizeSpacing(
    decodeCode(decodeMentions(decodeImages(decodeStatuses(decodePageLinks(
      decodeEnds(decodeStarts(decodeWidgets(decodeComments(s))))))))))

(***************************************************************************)
(* renderTableMarkdown.  A table is the sequence of its rows, a row the    *)
(* sequence of its cells, a cell the markup inside it.                     *)
(***************************************************************************)
Max(S) == CHOOSE x \in S : \A y \in S : x >= y

\* /MD_COMMENT\(([^)]+)\)/ : the token without the optional backslash
PlainCommentAt(t, i) ==
  IF At(t, i + 1, <<BS>>) THEN [argFrom |-> 0, argTo |-> 0, end |-> 0]
  ELSE TokenAt(t, i, <<"_COMMENT">>)

\* comment.match(/^(?:table|cell):bg:([#a-z0-9_-]+)$/i)
StyleWords == { "table:bg:", "cell:bg:" }
Colors == { "red" }
IsStyleComment(c) == Len(c) = 2 /\ c[1] \in StyleWords /\ c[2] \in Colors

commentOf(t, i) ==
  LET m == PlainCommentAt(t, i) IN decodeURIComponent(SubSeq(t, m.argFrom, m.argTo - 1))

\* The color of the last style comment of the cell, <<>> when there is none.
styleColor(html) ==
  LET hits == { i \in 1..Len(html) : PlainCommentAt(html, i).end > 0 /\ IsStyleComment(commentOf(html, i)) }
  IN IF hits = {} THEN <<>> ELSE <<commentOf(html, Max(hits))[2]>>

breakToNewline(x) == IF x \in { "<br/>", "</p>", "</div>" } THEN NL ELSE x

\* The style comments are taken out, the other comments stay as tokens.
keepComments(cell) ==
  ReplaceAll(cell, LAMBDA s, i : PlainCommentAt(s, i).end,
             LAMBDA s, i, e : IF IsStyleComment(commentOf(s, i)) THEN <<>>
                              ELSE Token(<<"_COMMENT">>, encodeURIComponent(commentOf(s, i))))
breakLines(html) == [k \in 1..Len(html) |-> breakToNewline(html[k])]
cellText(cell) ==
  trim(collapseWhitespace(decodeBasicEntities(stripTags(breakLines(keepComments(cell))))))
withStyle(text, color) ==
  IF color = <<>> THEN text
  ELSE IF text = <<>> THEN Comment(<<"cell:bg:">> \o color)
  ELSE text \o <<" ">> \o Comment(<<"cell:bg:">> \o color)

getCellTextWithComments(cell) == withStyle(cellText(cell), styleColor(cell))

RECURSIVE join(_, _)
join(parts, sep) ==
  IF parts = <<>> THEN <<>>
  ELSE IF Len(parts) = 1 THEN parts[1]
  ELSE parts[1] \o sep \o join(Tail(parts), sep)

colCountOf(matrix) == Max({0} \cup { Len(matrix[r]) : r \in 1..Len(matrix) })
padRow(row, colCount) == row \o [k \in 1..(colCount - Len(row)) |-> <<>>]
rowLine(cells) == <<"|", " ">> \o join(cells, <<" ", "|", " ">>) \o <<" ", "|">>

cellMatrix(rows) ==
  [r \in 1..Len(rows) |->
     [c \in 1..Len(rows[r]) |-> collapseWhitespace(trim(getCellTextWithComments(rows[r][c])))]]
tableLines(matrix, colCount) ==
  <<rowLine(padRow(matrix[1], colCount)), rowLine([k \in 1..colCount |-> <<"-", "-", "-">>])>>
  \o [r \in 1..(Len(matrix) - 1) |-> rowLine(padRow(matrix[r + 1], colCount))]
renderMatrix(matrix) ==
  decodeMdCommentTokens(join(tableLines(matrix, colCountOf(matrix)), <<NL>>))

renderTableMarkdown(rows) == IF rows = <<>> THEN <<>> ELSE renderMatrix(cellMatrix(rows))

\* String.prototype.split on one separator lexeme
RECURSIVE split(_, _)
split(t, sep) ==
  LET at == IndexOf(t, 1, <<sep>>)
  IN IF at = 0 THEN <<t>> ELSE <<SubSeq(t, 1, at - 1)>> \o split(SubSeq(t, at + 1, Len(t)), sep)

\* splitRow: the cells the upload side reads from a table line
splitRow(row) ==
  LET r == trim(row)
      a == IF r # <<>> /\ r[1] = "|" THEN Tail(r) ELSE r
      b == IF a # <<>> /\ a[Len(a)] = "|" THEN SubSeq(a, 1, Len(a) - 1) ELSE a
      cells == split(b, "|")
  IN [k \in 1..Len(cells) |-> trim(cells[k])]

(***************************************************************************)
(* storageToMarkdownBlocks on a storage document that holds one top-level  *)
(* node: a paragraph element, markup that stands outside any element (it   *)
(* is a text node once normalizeMacros has run), or a table.               *)
(***************************************************************************)
MaxInline == 2    \* constructs inside a paragraph, a bare run or a cell
MaxRows == 2      \* rows of a table
MaxCells == 2     \* cells of a row

Block(nodeId, markdown) == [nodeId |-> nodeId, markdown |-> markdown]

\* /MD(?:\\)?_TABLE\((\d+)\)/ -> "\n" + renderTableMarkdown(tables[i]) + "\n"
TableTokenAt(t, i) ==
  LET m == TokenAt(t, i, <<"_TABLE">>)
  IN IF m.end > 0 /\ \A k \in m.argFrom..(m.argTo - 1) : IsDigit(t[k]) THEN m.end ELSE 0
replaceTableTokens(markdown, tables) ==
  ReplaceAll(markdown, TableTokenAt,
             LAMBDA s, i, e : <<NL>> \o renderTableMarkdown(tables[1]) \o <<NL>>)

\* /\n{3,}/ -> "\n\n"
collapseBlankLines(t) ==
  ReplaceAll(t, LAMBDA s, i : LET e == RunEnd(s, i, LAMBDA x : x = NL) IN IF e - i >= 3 THEN e ELSE 0,
             LAMBDA s, i, e : <<NL, NL>>)

normalizeRows(rows) ==
  [r \in 1..Len(rows) |-> [c \in 1..Len(rows[r]) |-> normalizeMacros(rows[r][c])]]

\* if (md.trim()) blocks.push({ nodeId, markdown: md.trim() })
blockOf(nodeId, md) == IF md = <<>> THEN <<>> ELSE <<Block(nodeId, md)>>

\* A text node: skipped when blank, else decoded without turndown
textBlocks(t) ==
  IF t = <<>> THEN <<>>
  ELSE blockOf(NoId, trim(unescapeMarkdownUnderscores(decodeMdCommentTokens(t))))

\* The body of the loop over the top-level nodes, for the one node.
nodeBlocks(node) ==
  IF node.kind = "table"
  THEN blockOf(node.id, trim(renderTableMarkdown(normalizeRows(node.rows))))
  ELSE IF node.kind = "p"
  THEN blockOf(node.id, trim(unescapeMarkdownUnderscores(
                               decodeMdCommentTokens(turndown(normalizeMacros(node.inner))))))
  ELSE textBlocks(trim(decodeBasicEntities(normalizeMacros(node.inner))))

\* preprocessed.replace(/<table[\s\S]*?<\/table>/gi, ...) and the tables it sets aside
tokenized(node) ==
  IF node.kind = "table" THEN Token(<<"_TABLE">>, <<"0">>) ELSE normalizeMacros(node.inner)
tablesOf(node) == IF node.kind = "table" THEN <<normalizeRows(node.rows)>> ELSE <<>>

\* The page-wide pipeline taken when the loop found no block.
fallbackBlocks(node) ==
  <<Block(NoId,
          collapseBlankLines(unescapeMarkdownUnderscores(
            replaceTableTokens(decodeMdCommentTokens(turndown(tokenized(node))), tablesOf(node))))
          \o <<NL>>)>>

orFallback(blocks, node) == IF blocks = <<>> THEN fallbackBlocks(node) ELSE blocks
storageToMarkdownBlocks(node) == orFallback(nodeBlocks(node), node)

MarkerElement(ref, inner) == <<MarkerRefOpen>> \o ref \o <<MarkerRefEnd>> \o inner \o MarkerClose
ImageElement(url) == <<ImageOpen, UrlOpen>> \o url \o <<AttrEnd, ImageClose>>
StatusMacro(title) == <<StatusOpen, TitleParamOpen>> \o title \o <<ParamClose, MacroClose>>
PageLink(title) == <<LinkOpen, PageOpen>> \o title \o <<AttrEnd, LinkClose>>
UserLink(id) == <<LinkOpen, UserOpen>> \o id \o <<AttrEnd, LinkClose>>

\* What a page holds inside a paragraph or at top level: text, comments
\* (one of them empty), commented ranges, images (one with parentheses in
\* its URL), a status lozenge, page links (one to a page titled "~"), the
\* table of contents and a user mention.
StoragePieces ==
  { <<"t">>, <<"<!--", "note", "-->">>, <<"<!--", "-->">>,
    MarkerElement(<<"c">>, <<"t">>), ImageElement(<<"u">>), ImageElement(<<"u", "(", "v", ")">>),
    StatusMacro(<<"Done">>), PageLink(<<"c">>), PageLink(<<"~">>), <<TocMacro>>,
    UserLink(<<"u1">>) }

\* What a table cell holds: text, text with a pipe, two lines, a styled cell.
CellTexts ==
  { <<"a">>, <<"a", "|", "b">>, <<"a", "<br/>", "b">>,
    <<"<!--", " ", "cell:bg:", "red", " ", "-->", "a">> }

StorageNodes ==
  { [kind |-> k, id |-> i, inner |-> t] :
      k \in {"p", "bare"}, i \in {NoId}, t \in TextsOf(StoragePieces, MaxInline) }
  \cup { [kind |-> "p", id |-> "1", inner |-> <<"t">>] }
  \cup { [kind |-> "table", id |-> NoId, rows |-> rows] :
           rows \in SeqsUpTo(SeqsUpTo(CellTexts, MaxCells), MaxRows) }

InitDownload ==
  /\ IdleReplace /\ IdleUpload
  /\ input \in StorageNodes
  /\ output = <<>>
  /\ stage = "call"

\* A call whose loop over the top-level nodes yields at least one block
DownloadBlocks ==
  /\ stage = "call" /\ nodeBlocks(input) # <<>>
  /\ output' = storageToMarkdownBlocks(input)
  /\ stage' = "returned"
  /\ UNCHANGED <<input, replaceVars, uploadVars>>

\* A call that ends in the page-wide fallback
DownloadFallback ==
  /\ stage = "call" /\ nodeBlocks(input) = <<>>
  /\ output' = storageToMarkdownBlocks(input)
  /\ stage' = "returned"
  /\ UNCHANGED <<input, replaceVars, uploadVars>>

NextDownload == DownloadBlocks \/ DownloadFallback

SpecDownload == InitDownload /\ [][NextDownload]_vars

(***************************************************************************)
(* Claims about the download conversion                                    *)
(***************************************************************************)
\* The lines of a rendered table
linesOf(md) == split(md, NL)

\* The greatest number of cells in a row of the table
maxCellCount(rows) == Max({0} \cup { Len(rows[r]) : r \in 1..Len(rows) })

variesInLength(rows) == \E r1, r2 \in 1..Len(rows) : Len(rows[r1]) # Len(rows[r2])

\* C5: for a table whose rows hold different numbers of cells, every line the renderer emits (header, separator, body rows)
\* has the same number of columns, the greatest number of cells of a row.
C5_TableIsRectangular ==
  (stage = "returned" /\ input.kind = "table" /\ variesInLength(input.rows)) =>
    /\ Len(output) = 1
    /\ Len(linesOf(output[1].markdown)) = Len(input.rows) + 1
    /\ \A k \in 1..Len(linesOf(output[1].markdown)) :
         Len(splitRow(linesOf(output[1].markdown)[k])) = maxCellCount(input.rows)

\* The words that follow "MD" in a durable token
TokenWords ==
  { "_COMMENT", "_WIDGET", "_CMT", "_PAGE", "_STATUS", "_IMAGE", "_MENTION", "_TABLE" }
HoldsToken(md) == \E k \in 1..(Len(md) - 1) : md[k] = "MD" /\ md[k + 1] \in TokenWords

\* C10: whatever the payloads, the text of every block that
\* storageToMarkdownBlocks returns holds no durable token.
C10_NoTokenInBlocks ==
  stage = "returned" => \A b \in 1..Len(output) : ~HoldsToken(output[b].markdown)

(***************************************************************************)
(* The two conversions on malformed and unrecognized input                 *)
(***************************************************************************)
\* Page content nobody wrote with the tool: text, text that reads like a
\* durable token (one with a percent sign in its payload), a macro no rule
\* knows, a comment-range marker that is never closed, a stray start token.
OddStoragePieces ==
  { <<"t">>, Token(<<"_COMMENT">>, <<"c">>), Token(<<"_COMMENT">>, <<"1", "0", "0", "%">>),
    <<UnknownOpen, "t", MacroClose>>, <<MarkerRefOpen, "c", MarkerRefEnd, "t">>,
    Token(CmtStart, <<"c">>) }

\* Markdown nobody wrote with the tool: text, unbalanced comment-range
\* markers, a mention comment, and token look-alikes.
OddMarkdownPieces ==
  { <<"t">>, StartMarker(<<"c">>), EndMarker(<<"c">>), <<"<!--", " ", "mention:", "u1", " ", "-->">>,
    Token(<<"_MENTION">>, <<"u1">>), Token(<<"_MENTION">>, <<"%">>),
    Token(CmtStart, <<"%">>), Token(CmtEnd, <<"%">>) }

blocksRaise(blocks) == \E b \in 1..Len(blocks) : Raises(blocks[b].markdown)

\* markdownToStorageHtml on a body that is one block of the given kind
blockHtml(kind, text) ==
  IF kind = "paragraph" THEN paragraphHtml(text)
  ELSE IF kind = "heading" THEN headingHtml(text)
  ELSE listHtml(text)

InitTotal ==
  /\ IdleReplace /\ IdleUpload
  /\ input \in { [fn |-> "storageToMarkdownBlocks", node |-> [kind |-> k, id |-> NoId, inner |-> t]] :
                   k \in {"p", "bare"}, t \in TextsOf(OddStoragePieces, MaxInline) }
         \cup { [fn |-> "markdownToStorageHtml", kind |-> k, text |-> t] :
                   k \in {"paragraph", "heading", "list"},
                   t \in TextsOf(OddMarkdownPieces, MaxInline) \ { <<>> } }
  /\ output = <<>>
  /\ stage = "call"

\* One call of storageToMarkdownBlocks: it returns its blocks, or ends in
\* the exception raised while computing them.
CallStorageToMarkdownBlocks ==
  /\ stage = "call" /\ input.fn = "storageToMarkdownBlocks"
  /\ \E blocks \in { storageToMarkdownBlocks(input.node) } :
        /\ output' = IF blocksRaise(blocks) THEN <<>> ELSE blocks
        /\ stage' = IF blocksRaise(blocks) THEN "raised" ELSE "returned"
  /\ UNCHANGED <<input, replaceVars, uploadVars>>

\* One call of markdownToStorageHtml
CallMarkdownToStorageHtml ==
  /\ stage = "call" /\ input.fn = "markdownToStorageHtml"
  /\ \E html \in { blockHtml(input.kind, input.text) } :
        /\ output' = IF Raises(html) THEN <<>> ELSE html
        /\ stage' = IF Raises(html) THEN "raised" ELSE "returned"
  /\ UNCHANGED <<input, replaceVars, uploadVars>>

NextTotal == CallStorageToMarkdownBlocks \/ CallMarkdownToStorageHtml

SpecTotal == InitTotal /\ [][NextTotal]_vars

\* C11: storageToMarkdownBlocks and markdownToStorageHtml return a result
\* for every input (unknown macros, unbalanced markers, text that reads
\* like a durable token with any payload): no call ends in an exception.
C11_NoCallRaises == stage # "raised"

(***************************************************************************)
(* storageToMarkdownBlocks on a page of several top-level nodes            *)
(***************************************************************************)
MaxNodes == 2     \* top-level nodes of a page

\* The top-level nodes of a page: paragraphs (with and without content and
\* data-node-id), a text node, a table, and an element that wraps a table
\* which carries a data-node-id of its own.
TopNodes ==
  { [kind |-> "p", id |-> i, inner |-> t] :
      i \in {NoId, "1", "2"}, t \in { <<>>, <<"t">>, StatusMacro(<<"Done">>) } }
  \cup { [kind |-> "bare", id |-> NoId, inner |-> <<"t">>] }
  \cup { [kind |-> "table", id |-> i, rows |-> << <<<<"a">>>> >>] : i \in {NoId, "3"} }
  \cup { [kind |-> "div", id |-> i, tableId |-> "5", rows |-> << <<<<"b">>>> >>] : i \in {NoId, "4"} }

\* The parser merges adjacent text, so no two text nodes are neighbours.
Pages ==
  { p \in SeqsUpTo(TopNodes, MaxNodes) :
      \A k \in 1..(Len(p) - 1) : ~(p[k].kind = "bare" /\ p[k + 1].kind = "bare") }

\* The loop body for one top-level node; an element that holds a table is
\* rendered as that table under the element's own data-node-id.
topBlocks(node) ==
  IF node.kind = "div"
  THEN blockOf(node.id, trim(renderTableMarkdown(normalizeRows(node.rows))))
  ELSE nodeBlocks(node)

\* The same loop walking the nodes last to first
loopBlocksBackwards(nodes) ==
  Flatten([k \in 1..Len(nodes) |-> topBlocks(nodes[Len(nodes) + 1 - k])])

\* for (const node of nodes) { ... blocks.push(...) }
loopBlocks(nodes) == Flatten([k \in 1..Len(nodes) |-> topBlocks(nodes[k])])

\* The page-wide pipeline runs only when every node rendered blank, so the
\* page then holds no table and its text is that of its paragraphs.
pageFallback(nodes) ==
  fallbackBlocks([kind |-> "p", id |-> NoId,
                  inner |-> Flatten([k \in 1..Len(nodes) |-> nodes[k].inner])])

pageBlocks(blocks, nodes) == IF blocks = <<>> THEN pageFallback(nodes) ELSE blocks
storageToMarkdownBlocksOfPage(nodes) == pageBlocks(loopBlocks(nodes), nodes)

InitPage ==
  /\ IdleReplace /\ IdleUpload
  /\ input \in Pages
  /\ output = <<>>
  /\ stage = "call"

\* A call whose loop yields at least one block
PageBlocks ==
  /\ stage = "call" /\ loopBlocks(input) # <<>>
  /\ output' = storageToMarkdownBlocksOfPage(input)
  /\ stage' = "returned"
  /\ UNCHANGED <<input, replaceVars, uploadVars>>

\* A call on a page whose nodes all render blank
PageFallback ==
  /\ stage = "call" /\ loopBlocks(input) = <<>>
  /\ output' = storageToMarkdownBlocksOfPage(input)
  /\ stage' = "returned"
  /\ UNCHANGED <<input, replaceVars, uploadVars>>

NextPage == PageBlocks \/ PageFallback

SpecPage == InitPage /\ [][NextPage]_vars

\* A block was rendered from a node: it has that node's
\* text and that node's data-node-id (none for a text node or when the
\* node has none).
renderedFrom(block, node) ==
  /\ topBlocks(node) # <<>>
  /\ block.markdown = topBlocks(node)[1].markdown
  /\ block.nodeId = IF node.kind = "bare" THEN NoId ELSE node.id

\* C12: the blocks come in the document order of the top-level nodes they
\* were rendered from, and each nodeId is the data-node-id of that node;
\* the page-wide fallback block carries no nodeId.
C12_BlocksInOrderWithOwnIds ==
  stage = "returned" =>
    \/ /\ \A k \in 1..Len(input) : topBlocks(input[k]) = <<>>
       /\ Len(output) = 1 /\ output[1].nodeId = NoId
    \/ /\ Len(output) = Cardinality({ k \in 1..Len(input) : topBlocks(input[k]) # <<>> })
       /\ \E f \in [1..Len(output) -> 1..Len(input)] :
            /\ \A a, b \in 1..Len(output) : a < b => f[a] < f[b]
            /\ \A b \in 1..Len(output) : renderedFrom(output[b], input[f[b]])

\* Two nodes with different ids and text were rendered, the first of them
\* inside an element that wraps a table with an id of its own.
C12_Witness ==
  /\ stage = "returned" /\ Len(output) = 2
  /\ input[1].kind = "div" /\ input[1].id = "4" /\ output[1].nodeId = "4"
  /\ output[2].nodeId = "1" /\ output[1].markdown # output[2].markdown

(***************************************************************************)
(* markdownToStorageHtml on a GFM table: consumeTable and cellHtml         *)
(***************************************************************************)
\* /<!--[\s\S]*?-->/ at position i: the end of the comment, 0 for none
RawCommentAt(t, i) ==
  LET close == IndexOf(t, i + 1, <<"-->">>)
  IN IF At(t, i, <<"<!--">>) /\ close > 0 THEN close + 1 ELSE 0

\* .replace(/\\n/g, '<br/>')
newlineEscapes(s) ==
  ReplaceAll(s, LAMBDA t, i : IF At(t, i, <<BS, "n">>) THEN i + 2 ELSE 0,
             LAMBDA t, i, e : <<"<br/>">>)

\* A comment segment that is dropped instead of kept
noSegment(c) == <<>>

\* The text between comments, and a comment of the cell
textSegment(pre) ==
  IF pre = <<>> THEN <<>> ELSE newlineEscapes(replaceMentionTokensWithMacros(inlineHtml(pre)))
commentSegment(c) == replaceCommentWrapperCommentsWithTokens(replaceMentionCommentsWithTokens(c))

\* while ((m = re.exec(cell)) !== null) { ... } and the tail
RECURSIVE cellSegments(_)
cellSegments(cell) ==
  LET starts == { i \in 1..Len(cell) : RawCommentAt(cell, i) > 0 }
  IN IF starts = {} THEN textSegment(cell)
     ELSE textSegment(SubSeq(cell, 1, Min(starts) - 1))
          \o commentSegment(SubSeq(cell, Min(starts), RawCommentAt(cell, Min(starts)) - 1))
          \o cellSegments(SubSeq(cell, RawCommentAt(cell, Min(starts)), Len(cell)))

\* out.replace(/(?:<br\/>\s*)+$/i, '')
stripTrailingBreaks(out) ==
  LET cuts == { i \in 1..Len(out) :
                  out[i] = "<br/>" /\ \A k \in i..Len(out) : out[k] = "<br/>" \/ IsWs(out[k]) }
  IN IF cuts = {} THEN out ELSE SubSeq(out, 1, Min(cuts) - 1)

\* The cell body is wrapped in <p> unless it is blank or starts with one.
wrapCell(out) ==
  IF trim(out) = <<>> THEN <<>>
  ELSE IF Head(trim(out)) = "<p>" THEN trim(out)
  ELSE <<"<p>">> \o out \o <<"</p>">>

cellHtml(cell) ==
  wrapCell(stripTrailingBreaks(
    wrapCommentTokenRangesToInlineMarkers(replaceMentionTokensWithMacros(cellSegments(cell)))))

headerRowHtml(cells) ==
  <<"<thead>", "<tr>">> \o Flatten([c \in 1..Len(cells) |-> <<"<th>">> \o cellHtml(cells[c]) \o <<"</th>">>])
  \o <<"</tr>", "</thead>">>
bodyRowHtml(cells) ==
  <<"<tr>">> \o Flatten([c \in 1..Len(cells) |-> <<"<td>">> \o cellHtml(cells[c]) \o <<"</td>">>])
  \o <<"</tr>">>

\* The table of a header row and body rows, every row padded to colCount
tableHtml(headerCells, rows, colCount) ==
  <<"<table>">> \o headerRowHtml(padRow(headerCells, colCount)) \o <<"<tbody>">>
  \o Flatten([r \in 1..Len(rows) |-> bodyRowHtml(padRow(rows[r], colCount))])
  \o <<"</tbody>", "</table>">>

\* rows.push(splitRow(lines[i])) for the lines after the separator
bodyRowsOf(lines) == [r \in 1..(Len(lines) - 2) |-> splitRow(lines[r + 2])]

\* consumeTable on the lines of one table (header, separator, body rows)
consumeTable(lines) ==
  tableHtml(splitRow(lines[1]), bodyRowsOf(lines),
            colCountOf(<<splitRow(lines[1])>> \o bodyRowsOf(lines)))

\* What an author writes in a cell: text, text with a styling annotation,
\* the annotation alone, an escaped line break, a commented range, nothing.
StyleNote(color) == <<"<!--", " ", "cell:bg:">> \o color \o <<" ", "-->">>
UploadColors == { <<"red">>, <<"#fee">> }
UploadCells ==
  { <<"x">>, <<>>, <<"x", BS, "n", "y">>, <<"x", BS, "n">>,
    StartMarker(<<"c">>) \o <<"x">> \o EndMarker(<<"c">>) }
  \cup { <<"x", " ">> \o StyleNote(c) : c \in UploadColors }
  \cup { StyleNote(c) : c \in UploadColors }
UploadRows == { <<c>> : c \in UploadCells } \cup { <<<<"x">>, c>> : c \in UploadCells }

\* The lines of the GFM table with header A and the given body rows
tableMarkdown(rows) ==
  <<rowLine(<< <<"A">> >>), rowLine(<< <<"-", "-", "-">> >>)>> \o [r \in 1..Len(rows) |-> rowLine(rows[r])]

InitTable ==
  /\ IdleReplace /\ IdleUpload
  /\ input \in { [rows |-> rows, lines |-> tableMarkdown(rows)] :
                   rows \in SeqsUpTo(UploadRows, MaxRows) \ { <<>> } }
  /\ output = <<>>
  /\ stage = "call"

\* The table branch of markdownToStorageHtml
ConsumeTable ==
  /\ stage = "call"
  /\ output' = consumeTable(input.lines)
  /\ stage' = "returned"
  /\ UNCHANGED <<input, replaceVars, uploadVars>>

NextTable == ConsumeTable

SpecTable == InitTable /\ [][NextTable]_vars

\* The bodies of the data cells of a storage table, in document order
dataCells(html) ==
  LET opens == { i \in 1..Len(html) : html[i] = "<td>" }
      nth(k) == CHOOSE i \in opens : Cardinality({ j \in opens : j < i }) = k - 1
  IN [k \in 1..Cardinality(opens) |-> SubSeq(html, nth(k) + 1, IndexOf(html, nth(k), <<"</td>">>) - 1)]

\* The cell holds the background annotation of the color
carriesBackground(cell, color) ==
  \E i \in 1..Len(cell) : At(cell, i, <<"cell:bg:">> \o color) /\ RawCommentAt(cell, i - 2) > 0

endsWithStyle(cell, color) ==
  Len(cell) >= Len(StyleNote(color))
  /\ SubSeq(cell, Len(cell) - Len(StyleNote(color)) + 1, Len(cell)) = StyleNote(color)

MaxCodeLines == 2    \* lines of a code body

Indent == "    "     \* four leading spaces
LangLexemes == { "js", "c++" }
IsSpace(x) == x \in { " ", Indent }
IsBlankLine(l) == \A k \in 1..Len(l) : IsSpace(l[k])

\* codeText.includes("]]>"), the terminator written as one lexeme or as
\* its three characters
TerminatorAt(t, k) == At(t, k, <<"]]>">>) \/ At(t, k, <<"]", "]", ">">>)
includesTerminator(t) == \E k \in 1..Len(t) : TerminatorAt(t, k)

\* The body always wrapped in CDATA
codeBodyInCdata(codeText) == <<PlainBodyOpen, "<![CDATA[">> \o codeText \o <<"]]>", PlainBodyClose>>

\* CDATA unless the text holds "]]>", escaped text otherwise
codeBody(codeText) ==
  IF includesTerminator(codeText)
  THEN <<PlainBodyOpen>> \o escapeHtml(codeText) \o <<PlainBodyClose>>
  ELSE <<PlainBodyOpen, "<![CDATA[">> \o codeText \o <<"]]>", PlainBodyClose>>

langParam(lang) == IF lang = <<>> THEN <<>> ELSE <<LangParamOpen>> \o escapeHtml(lang) \o <<ParamClose>>
codeMacro(lang, codeText) == <<CodeOpen>> \o langParam(lang) \o codeBody(codeText) \o <<MacroClose>>

\* /^BQBQBQ(?<lang>[A-Za-z0-9_+\-]*)\s*$/ : the opening fence and its language
fenceLangEnd(line) == RunEnd(line, 4, LAMBDA x : x \in LangLexemes)
IsCodeFence(line) ==
  At(line, 1, Fence) /\ \A k \in fenceLangEnd(line)..Len(line) : IsSpace(line[k])
fenceLang(line) == SubSeq(line, 4, fenceLangEnd(line) - 1)
\* /^BQBQBQ\s*$/ : the closing fence
IsClosingFence(line) == At(line, 1, Fence) /\ \A k \in 4..Len(line) : IsSpace(line[k])

\* The lines between the opening fence and the closing fence (or the end)
fencedBody(lines) ==
  LET closes == { k \in 2..Len(lines) : IsClosingFence(lines[k]) }
  IN SubSeq(lines, 2, IF closes = {} THEN Len(lines) ELSE Min(closes) - 1)
fencedCode(lines) == codeMacro(fenceLang(lines[1]), join(fencedBody(lines), <<NL>>))

\* The contiguous indented or blank lines, four leading spaces removed
indentedLine(raw) == IF IsBlankLine(raw) THEN <<>> ELSE Tail(raw)
indentedBody(lines) ==
  LET stops == { k \in 1..Len(lines) : ~(IsBlankLine(lines[k]) \/ At(lines[k], 1, <<Indent>>)) }
      n == IF stops = {} THEN Len(lines) ELSE Min(stops) - 1
  IN [k \in 1..n |-> indentedLine(lines[k])]
indentedCode(lines) == <<CodeOpen>> \o codeBody(join(indentedBody(lines), <<NL>>)) \o <<MacroClose>>

\* The code branches of the line loop, for a text that is one code block
codeBlockHtml(lines) ==
  IF IsCodeFence(lines[1]) THEN fencedCode(lines) ELSE indentedCode(lines)

\* Lines of code: text, a blank line, the CDATA terminator alone and within
\* text, markup characters.
CodeLines ==
  { <<"x">>, <<>>, <<"]]>">>, <<"]", "]", ">">>, <<"<", "&">>, <<"x", "]]>", "y">> }
CodeBodies == SeqsUpTo(CodeLines, MaxCodeLines)

fencedLines(lang, body, closed) ==
  <<Fence \o lang>> \o body \o (IF closed THEN <<Fence>> ELSE <<>>)
indentedLines(body) == [k \in 1..Len(body) |-> IF body[k] = <<>> THEN <<>> ELSE <<Indent>> \o body[k]]

InitCode ==
  /\ IdleReplace /\ IdleUpload
  /\ input \in { [style |-> "fenced", lang |-> l, body |-> b, lines |-> fencedLines(l, b, c)] :
                   l \in { <<>>, <<"js">> }, b \in CodeBodies, c \in BOOLEAN }
         \cup { [style |-> "indented", lang |-> <<>>, body |-> b, lines |-> indentedLines(b)] :
                   b \in { b \in CodeBodies : b # <<>> /\ b[1] # <<>> } }
  /\ output = <<>>
  /\ stage = "call"

ConvertFenced ==
  /\ stage = "call" /\ IsCodeFence(input.lines[1])
  /\ output' = codeBlockHtml(input.lines)
  /\ stage' = "returned"
  /\ UNCHANGED <<input, replaceVars, uploadVars>>

ConvertIndented ==
  /\ stage = "call" /\ ~IsCodeFence(input.lines[1]) /\ At(input.lines[1], 1, <<Indent>>)
  /\ output' = codeBlockHtml(input.lines)
  /\ stage' = "returned"
  /\ UNCHANGED <<input, replaceVars, uploadVars>>

NextCode == ConvertFenced \/ ConvertIndented

SpecCode == InitCode /\ [][NextCode]_vars

\* The text of the body the author wrote
bodyText(body) == join(body, <<NL>>)

\* The CDATA sections of a text end at their first terminator, which the
\* close of the body follows.
cdataWellFormed(html) ==
  \A i \in 1..Len(html) : html[i] = "<![CDATA[" =>
    LET ends == { k \in (i + 1)..Len(html) : TerminatorAt(html, k) }
    IN ends # {} /\ html[Min(ends)] = "]]>" /\ At(html, Min(ends) + 1, <<PlainBodyClose>>)

statusColorFrom(l) == RunEnd(l, 2, IsWs) + 1
statusColorTo(l) == RunEnd(l, statusColorFrom(l), LAMBDA x : x # ":" /\ ~HoldsGt(x))
statusTitleFrom(l) == RunEnd(l, statusColorTo(l) + 1, IsWs)
statusTitleTo(l) == RunEnd(l, statusTitleFrom(l), LAMBDA x : ~HoldsGt(x))
IsStatusTag(l) ==
  /\ At(l, 1, <<"<!--">>) /\ At(l, statusColorFrom(l) - 1, <<"status:">>)
  /\ statusColorTo(l) > statusColorFrom(l) /\ At(l, statusColorTo(l), <<":">>)
  /\ statusTitleFrom(l) <= Len(l)
  /\ statusTitleTo(l) > statusTitleFrom(l)
  /\ statusTitleTo(l) = Len(l) /\ l[Len(l)] = "-->"

\* The status macro written for a status tag line
statusHtml(l) ==
  <<StatusOpen, TitleParamOpen>>
  \o escapeHtml(trim(SubSeq(l, statusTitleFrom(l), statusTitleTo(l) - 1)))
  \o <<ParamClose, ColourParamOpen>>
  \o escapeHtml(trim(SubSeq(l, statusColorFrom(l), statusColorTo(l) - 1)))
  \o <<ParamClose, MacroClose>>

RECURSIVE linesHtml(_)
linesHtml(lines) ==
  IF lines = <<>> THEN <<>>
  ELSE IF IsBlankLine(lines[1]) THEN linesHtml(Tail(lines))
  ELSE IF IsStatusTag(trim(lines[1])) THEN statusHtml(trim(lines[1])) \o linesHtml(Tail(lines))
  ELSE IF IsCodeFence(lines[1])
  THEN LET closes == { k \in 2..Len(lines) : IsClosingFence(lines[k]) }
           next == IF closes = {} THEN Len(lines) + 1 ELSE Min(closes) + 1
       IN fencedCode(lines) \o linesHtml(SubSeq(lines, next, Len(lines)))
  ELSE LET blanks == { k \in 1..Len(lines) : IsBlankLine(lines[k]) }
           next == IF blanks = {} THEN Len(lines) + 1 ELSE Min(blanks)
       IN paragraphHtml(join(SubSeq(lines, 1, next - 1), <<" ">>))
          \o linesHtml(SubSeq(lines, next, Len(lines)))

\* md.split(/\r?\n/) and the loop
markdownTextToStorageHtml(md) == linesHtml(split(md, NL))

\* The text of the blocks of a page, joined as the download command does
blocksText(blocks) == join([b \in 1..Len(blocks) |-> blocks[b].markdown], <<NL, NL>>)

\* Languages of a code macro (one of them outside the letters a fence may
\* carry) and lines of its body: text, a blank line, a backslash, an
\* asterisk, underscores, a line of three backquotes.
TripLangs == { <<>>, <<"js">>, <<"c#">> }
TripLines == { <<"x">>, <<>>, <<BS>>, <<"*">>, <<"_">>, <<BS, "_">>, Fence }

InitCodeTrip ==
  /\ IdleReplace /\ IdleUpload
  /\ input \in { [lang |-> l, body |-> b, storage |-> codeMacro(l, join(b, <<NL>>))] :
                   l \in TripLangs, b \in SeqsUpTo(TripLines, MaxCodeLines) }
  /\ output = [md |-> <<>>, html |-> <<>>]
  /\ stage = "storage"

\* storageToMarkdownBlocks on the page that holds the macro
CodeToText ==
  /\ stage = "storage"
  /\ output' = [output EXCEPT !.md = blocksText(storageToMarkdownBlocks(
                                       [kind |-> "bare", id |-> NoId, inner |-> input.storage]))]
  /\ stage' = "text"
  /\ UNCHANGED <<input, replaceVars, uploadVars>>

\* markdownToStorageHtml on that text
TextToCode ==
  /\ stage = "text"
  /\ output' = [output EXCEPT !.html = markdownTextToStorageHtml(output.md)]
  /\ stage' = "uploaded"
  /\ UNCHANGED <<input, replaceVars, uploadVars>>

NextCodeTrip == CodeToText \/ TextToCode

SpecCodeTrip == InitCodeTrip /\ [][NextCodeTrip]_vars

\* C15: a code macro with language L and body B comes back from
\* storage -> text -> storage as a code macro with the same L and B.
C15_CodeRoundTrip ==
  stage = "uploaded" => output.html = codeMacro(input.lang, join(input.body, <<NL>>))

(***************************************************************************)
(* A user mention taken through storageToMarkdownBlocks and back           *)
(***************************************************************************)
\* <ac:link><ri:user ri:account-id="id"/>label</ac:link>
UserLinkWithLabel(id, label) == <<LinkOpen, UserOpen>> \o id \o <<AttrEnd>> \o label \o <<LinkClose>>

\* Account ids: a plain word, a UUID, ids of the form site:account, ids
\* with an underscore or an asterisk.  Labels: none, one word, two words.
AccountIds ==
  { <<"u1">>, <<"UUID">>, <<"s", ":", "u1">>, <<"s", ":", "UUID">>, <<"u", "_", "1">>, <<"a", "*", "b">> }
MentionLabels == { <<>>, <<"Al">>, <<"Al", " ", "B">> }

\* The page that holds the construct alone, in a paragraph or at top level
pageOf(place, inner) == [kind |-> place, id |-> NoId, inner |-> inner]

InitMentionTrip ==
  /\ IdleReplace /\ IdleUpload
  /\ input \in { [id |-> a, label |-> l, place |-> p, storage |-> UserLinkWithLabel(a, l)] :
                   a \in AccountIds, l \in MentionLabels, p \in {"p", "bare"} }
  /\ output = [md |-> <<>>, html |-> <<>>]
  /\ stage = "storage"

MentionToText ==
  /\ stage = "storage"
  /\ output' = [output EXCEPT !.md = blocksText(storageToMarkdownBlocks(pageOf(input.place, input.storage)))]
  /\ stage' = "text"
  /\ UNCHANGED <<input, replaceVars, uploadVars>>

TextToMention ==
  /\ stage = "text"
  /\ output' = [output EXCEPT !.html = markdownTextToStorageHtml(output.md)]
  /\ stage' = "uploaded"
  /\ UNCHANGED <<input, replaceVars, uploadVars>>

NextMentionTrip == MentionToText \/ TextToMention

SpecMentionTrip == InitMentionTrip /\ [][NextMentionTrip]_vars

\* The account ids of the user mentions of an uploaded text, in order
mentionsOf(html) ==
  LET opens == { i \in 1..Len(html) : html[i] = "<ac:link><ri:user ri:account-id=\"" }
      nth(k) == CHOOSE i \in opens : Cardinality({ j \in opens : j < i }) = k - 1
  IN [k \in 1..Cardinality(opens) |->
        decodeBasicEntities(SubSeq(html, nth(k) + 1, IndexOf(html, nth(k), <<"\"/></ac:link>">>) - 1))]

\* C16: a user mention of account id A comes back from
\* storage -> text -> storage as one user mention of exactly A.
C16_MentionRoundTrip ==
  stage = "uploaded" => mentionsOf(output.html) = <<input.id>>

(***************************************************************************)
(* A status macro taken through storageToMarkdownBlocks and back           *)
(***************************************************************************)
StatusWithColour(colour, title) ==
  <<StatusOpen, TitleParamOpen>> \o title \o <<ParamClose, ColourParamOpen>> \o colour
  \o <<ParamClose, MacroClose>>

StatusColours == { <<"Green">>, <<"yellow">> }
StatusTitles == { <<"Done">>, <<"In", " ", "Progress">>, <<"a", ":", "b">>, <<"x", "_", "y">> }

\* The text around the macro: none at top level; none, before, after or
\* on both sides inside a paragraph.
StatusPlaces ==
  { [place |-> "bare", before |-> <<>>, after |-> <<>>] }
  \cup { [place |-> "p", before |-> b, after |-> a] : b \in { <<>>, <<"t", " ">> }, a \in { <<>>, <<" ", "t">> } }

InitStatusTrip ==
  /\ IdleReplace /\ IdleUpload
  /\ input \in { [colour |-> c, title |-> t, at |-> p,
                  storage |-> p.before \o StatusWithColour(c, t) \o p.after] :
                   c \in StatusColours, t \in StatusTitles, p \in StatusPlaces }
  /\ output = [md |-> <<>>, html |-> <<>>]
  /\ stage = "storage"

StatusToText ==
  /\ stage = "storage"
  /\ output' = [output EXCEPT !.md = blocksText(storageToMarkdownBlocks(pageOf(input.at.place, input.storage)))]
  /\ stage' = "text"
  /\ UNCHANGED <<input, replaceVars, uploadVars>>

TextToStatus ==
  /\ stage = "text"
  /\ output' = [output EXCEPT !.html = markdownTextToStorageHtml(output.md)]
  /\ stage' = "uploaded"
  /\ UNCHANGED <<input, replaceVars, uploadVars>>

NextStatusTrip == StatusToText \/ TextToStatus

SpecStatusTrip == InitStatusTrip /\ [][NextStatusTrip]_vars

\* The text holds a status macro of the title and colour
holdsStatus(html, title, colour) ==
  \E i \in 1..Len(html) :
    /\ ElementAt(html, i, StatusOpen, MacroClose) > 0
    /\ paramValue(SubSeq(html, i + 1, ElementAt(html, i, StatusOpen, MacroClose) - 2), TitleParamOpen)
         = title
    /\ paramValue(SubSeq(html, i + 1, ElementAt(html, i, StatusOpen, MacroClose) - 2), ColourParamOpen)
         = colour

\* C17: a status macro with colour c and title t comes back from
\* storage -> text -> storage as a status macro with title t and colour
\* lower-case(c), wherever it stands in the page.
C17_StatusRoundTrip ==
  stage = "uploaded" => holdsStatus(output.html, input.title, toLowerCase(input.colour))

(***************************************************************************)
(* A page link taken through storageToMarkdownBlocks and back              *)
(***************************************************************************)
\* <ac:link><ri:page [ri:space-key="K"] ri:content-title="T"/>
\*   <ac:plain-text-link-body><![CDATA[X]]></ac:plain-text-link-body></ac:link>
PageLinkWithBody(spaceKey, title, text) ==
  <<LinkOpen>>
  \o (IF spaceKey = <<>> THEN <<PageOpen>> ELSE <<PageSpaceOpen>> \o spaceKey \o <<TitleAttr>>)
  \o title \o <<AttrEnd, LinkBodyOpen>> \o text \o <<LinkBodyClose, LinkClose>>

SpaceKeys == { <<>>, <<"DEV">> }
PageTitles == { <<"Home">>, <<"API", " ", "Ref">>, <<"a", ":", "b">>, <<"x", "_", "y">> }
LinkTexts == { <<"docs">>, <<"API", " ", "docs">>, <<"x", "_", "y">> }

InitLinkTrip ==
  /\ IdleReplace /\ IdleUpload
  /\ input \in { [spaceKey |-> k, title |-> t, text |-> x, place |-> p,
                  storage |-> PageLinkWithBody(k, t, x)] :
                   k \in SpaceKeys, t \in PageTitles, x \in LinkTexts, p \in {"p", "bare"} }
  /\ output = [md |-> <<>>, html |-> <<>>]
  /\ stage = "storage"

LinkToText ==
  /\ stage = "storage"
  /\ output' = [output EXCEPT !.md = blocksText(storageToMarkdownBlocks(pageOf(input.place, input.storage)))]
  /\ stage' = "text"
  /\ UNCHANGED <<input, replaceVars, uploadVars>>

TextToLink ==
  /\ stage = "text"
  /\ output' = [output EXCEPT !.html = markdownTextToStorageHtml(output.md)]
  /\ stage' = "uploaded"
  /\ UNCHANGED <<input, replaceVars, uploadVars>>

NextLinkTrip == LinkToText \/ TextToLink

SpecLinkTrip == InitLinkTrip /\ [][NextLinkTrip]_vars

\* The page link that the upload wrote at position i: its space key (none
\* when the link carries no such attribute), content title and link text
writtenLink(html, i) ==
  LET keyed == html[i] = "<ac:link><ri:page ri:space-key=\""
      titleAt == IF keyed THEN IndexOf(html, i, <<TitleAttr>>) ELSE i
      titleTo == IndexOf(html, titleAt, <<AttrEnd>>)
      bodyTo == IndexOf(html, titleTo, <<"]]></ac:plain-text-link-body></ac:link>">>)
  IN [spaceKey |-> IF keyed THEN decodeBasicEntities(SubSeq(html, i + 1, titleAt - 1)) ELSE <<>>,
      title |-> decodeBasicEntities(SubSeq(html, titleAt + 1, titleTo - 1)),
      text |-> SubSeq(html, titleTo + 2, bodyTo - 1)]

\* C18: a page link with space key K (possibly absent), content title T and
\* link text X comes back from storage -> text -> storage as a page link
\* with the same K, T and X.
C18_PageLinkRoundTrip ==
  stage = "uploaded" =>
    \E i \in 1..Len(output.html) :
      /\ output.html[i] \in { "<ac:link><ri:page ri:space-key=\"", "<ac:link><ri:page ri:content-title=\"" }
      /\ writtenLink(output.html, i)
           = [spaceKey |-> input.spaceKey, title |-> input.title, text |-> input.text]

(***************************************************************************)
(* Line breaks in table cells, through storageToMarkdownBlocks and back    *)
(***************************************************************************)
\* What a cell with line breaks holds: <br/> between, after or before
\* text, two paragraphs; and cells without a break.
BreakCells ==
  { <<"a">>, <<"a", " ", "b">>, <<"a", "<br/>", "b">>, <<"a", "<br/>">>, <<"<br/>", "a">>,
    <<"a", "<br/>", "<br/>", "b">>, <<"a", " ", "<br/>", "b">>,
    <<"<p>", "a", "</p>", "<p>", "b", "</p>">> }

holdsBreak(cell) == \E k \in 1..Len(cell) : cell[k] = "<br/>"

InitCellTrip ==
  /\ IdleReplace /\ IdleUpload
  /\ input \in { [cells |-> cells,
                  table |-> [kind |-> "table", id |-> NoId,
                             rows |-> << << <<"A">> >> >> \o [r \in 1..Len(cells) |-> <<cells[r]>>]]] :
                   cells \in SeqsUpTo(BreakCells, MaxRows) \ { <<>> } }
  /\ output = [md |-> <<>>, html |-> <<>>]
  /\ stage = "storage"

\* storageToMarkdownBlocks on the page that holds the table
TableToText ==
  /\ stage = "storage"
  /\ output' = [output EXCEPT !.md = blocksText(storageToMarkdownBlocks(input.table))]
  /\ stage' = "text"
  /\ UNCHANGED <<input, replaceVars, uploadVars>>

\* markdownToStorageHtml on that text, which is one table
TextToTable ==
  /\ stage = "text"
  /\ output' = [output EXCEPT !.html = consumeTable(split(output.md, NL))]
  /\ stage' = "uploaded"
  /\ UNCHANGED <<input, replaceVars, uploadVars>>

NextCellTrip == TableToText \/ TextToTable

SpecCellTrip == InitCellTrip /\ [][NextCellTrip]_vars

\* C19: a line break inside a table cell is written to the text as the
\* two characters \n, and comes back from the upload as a line break.
C19_CellLineBreaksSurvive ==
  stage = "uploaded" =>
    \A r \in 1..Len(input.cells) :
      input.cells[r] = <<"a", "<br/>", "b">> =>
        /\ IndexOf(output.md, 1, <<"a", BS, "n", "b">>) > 0
        /\ dataCells(output.html)[r] = <<"<p>", "a", "<br/>", "b", "</p>">>

(***************************************************************************)
(* detectUnsupportedFeatures                                               *)
(*                                                                         *)
(* The tags of a document are lexed finer here than elsewhere: the tag     *)
(* name, each attribute name with its = sign, each quote, each digit of a  *)
(* span and the closing > are lexemes of their own.                        *)
(***************************************************************************)
MaxElements == 2  \* elements of a scanned document

MacroTag == "<ac:structured-macro"
NameAttr == "ac:name="
Quotes == { "\"", "'" }
SpanAttrs == { "colspan=", "rowspan=" }

\* the i flag of every pattern
ignoreCase(x) ==
  CASE x = "<TD" -> "<td"
    [] x = "<TH" -> "<th"
    [] x = "COLSPAN=" -> "colspan="
    [] x = "Expand" -> "expand"
    [] OTHER -> x

\* [^>]* between positions i and j
insideTag(html, i, j) == \A k \in (i + 1)..(j - 1) : html[k] # ">"

\* /<ac:structured-macro\b[^>]*\bac:name=["'](?:names)["']/i
macroNamed(html, names) ==
  \E i \in 1..Len(html) : \E j \in (i + 1)..(Len(html) - 3) :
    /\ html[i] = MacroTag
    /\ insideTag(html, i, j)
    /\ html[j] = NameAttr
    /\ html[j + 1] \in Quotes
    /\ ignoreCase(html[j + 2]) \in names
    /\ html[j + 3] \in Quotes

\* /<ac:layout\b/i
layoutTag(html) == \E i \in 1..Len(html) : html[i] = "<ac:layout"

\* ["']?[2-9] after the attribute at j
spanDigitAt(html, j) ==
  \/ j + 1 <= Len(html) /\ html[j + 1] \in {"2", "3", "4", "5", "6", "7", "8", "9"}
  \/ j + 2 <= Len(html) /\ html[j + 1] \in Quotes
       /\ html[j + 2] \in {"2", "3", "4", "5", "6", "7", "8", "9"}

\* /<t[hd]\b[^>]*\b(?:colspan|rowspan)=["']?[2-9]/i
mergedCell(html) ==
  \E i \in 1..Len(html) : \E j \in (i + 1)..Len(html) :
    /\ ignoreCase(html[i]) \in {"<td", "<th"}
    /\ insideTag(html, i, j)
    /\ ignoreCase(html[j]) \in SpanAttrs
    /\ spanDigitAt(html, j)

push(found, name) == IF found THEN <<name>> ELSE <<>>

detectUnsupportedFeatures(html) ==
  push(macroNamed(html, {"section", "column"}), "multi-column layout")
  \o push(layoutTag(html), "page layout")
  \o push(macroNamed(html, {"expand"}), "expand/collapse sections")
  \o push(macroNamed(html, {"excerpt", "excerpt-include"}), "excerpt macros")
  \o push(macroNamed(html, {"jira"}), "Jira issue integration")
  \o push(macroNamed(html, {"include"}), "page include")
  \o push(macroNamed(html, {"children", "pagetree", "pagetreesearch"}), "page tree/children display")
  \o push(macroNamed(html, {"roadmap", "timeline"}), "roadmap/timeline")
  \o push(macroNamed(html, {"iframe", "widget", "html"}), "embedded iframe/widget/HTML")
  \o push(mergedCell(html), "merged table cells")
  \o push(macroNamed(html, {"chart", "drawio", "gliffy", "lucidchart"}), "charts/diagrams")
  \o push(macroNamed(html, {"attachments", "viewfile"}), "attachments list")
  \o push(macroNamed(html, {"contentbylabel", "recentlyupdated"}), "dynamic content display")

\* The elements a scanned document is put together from. Each is written
\* with what it is: a cell with the number its span attribute holds (1 when
\* it has none), a macro with whether the upload supports it.
RECURSIVE numberOf(_)
numberOf(digits) ==
  IF digits = <<>> THEN 0
  ELSE 10 * numberOf(SubSeq(digits, 1, Len(digits) - 1))
       + (CHOOSE n \in 0..9 : <<"0", "1", "2", "3", "4", "5", "6", "7", "8", "9">>[n + 1] = digits[Len(digits)])

PlainCell(tag) == [kind |-> "cell", span |-> 1, html |-> <<tag, ">", "x", "</td>">>]
SpanCell(tag, attr, quote, digits) ==
  [kind |-> "cell", span |-> numberOf(digits),
   html |-> <<tag, " ", attr>> \o quote \o digits \o quote \o <<">", "x", "</td>">>]
ClassSpanCell(digits) ==
  [kind |-> "cell", span |-> numberOf(digits),
   html |-> <<"<td", " ", "class=", "\"", "c", "\"", " ", "rowspan=", "\"">> \o digits \o <<"\"", ">", "x", "</td>">>]
MacroElement(name, supported) ==
  [kind |-> IF supported THEN "supported" ELSE "unsupported", span |-> 1,
   html |-> <<MacroTag, " ", NameAttr, "\"", name, "\"", ">", "</ac:structured-macro>">>]

ScanElements ==
  { PlainCell("<td"), PlainCell("<th"),
    SpanCell("<td", "colspan=", <<"\"">>, <<"1">>),
    SpanCell("<th", "colspan=", <<"\"">>, <<"2">>),
    SpanCell("<td", "rowspan=", <<"\"">>, <<"3">>),
    SpanCell("<td", "rowspan=", <<"'">>, <<"2">>),
    SpanCell("<td", "colspan=", <<>>, <<"2">>),
    SpanCell("<TD", "COLSPAN=", <<"\"">>, <<"9">>),
    SpanCell("<td", "colspan=", <<"\"">>, <<"1", "0">>),
    SpanCell("<th", "rowspan=", <<"\"">>, <<"1", "2">>),
    ClassSpanCell(<<"2">>), ClassSpanCell(<<"1">>),
    MacroElement("toc", TRUE), MacroElement("status", TRUE),
    MacroElement("expand", FALSE), MacroElement("Expand", FALSE),
    MacroElement("section", FALSE), MacroElement("column", FALSE),
    MacroElement("jira", FALSE), MacroElement("drawio", FALSE),
    [kind |-> "unsupported", span |-> 1, html |-> <<"<ac:layout", ">", "</ac:layout>">>],
    [kind |-> "supported", span |-> 1, html |-> <<"<p>", "x", "</p>">>] }

htmlOf(elements) == Flatten([k \in 1..Len(elements) |-> elements[k].html])

InitScan ==
  /\ IdleReplace /\ IdleUpload
  /\ input \in { [elements |-> es, html |-> htmlOf(es)] : es \in SeqsUpTo(ScanElements, MaxElements) }
  /\ output = <<>>
  /\ stage = "storage"

DetectUnsupportedFeatures ==
  /\ stage = "storage"
  /\ output' = detectUnsupportedFeatures(input.html)
  /\ stage' = "scanned"
  /\ UNCHANGED <<input, replaceVars, uploadVars>>

NextScan == DetectUnsupportedFeatures

SpecScan == InitScan /\ [][NextScan]_vars

hasMergedCell(elements) == \E k \in 1..Len(elements) : elements[k].span > 1
onlySupported(elements) ==
  \A k \in 1..Len(elements) :
    \/ elements[k].kind = "supported"
    \/ elements[k].kind = "cell" /\ elements[k].span = 1
reports(list, name) == \E k \in 1..Len(list) : list[k] = name

\* C20: "merged table cells" is reported exactly for the documents that
\* hold a th or td cell whose colspan or rowspan is greater than 1; no
\* category is reported twice; a document of supported constructs only
\* yields the empty list.
C20_MergedCellsReported ==
  stage = "scanned" =>
    /\ hasMergedCell(input.elements) <=> reports(output, "merged table cells")
    /\ \A k, l \in 1..Len(output) : output[k] = output[l] => k = l
    /\ onlySupported(input.elements) => output = <<>>

(***************************************************************************)
(* markdownToStorageHtml: the line loop, one iteration per step.           *)
(*                                                                         *)
(* A line is a text; a hyphen, a hash sign, a bar and each bracket are     *)
(* lexemes of their own.                                                   *)
(***************************************************************************)
MaxLoopLines == 3   \* lines of a text given to the loop

spacesEnd(l, i) == RunEnd(l, i, IsSpace)
\* \s* at both ends of a pattern
stripSpaces(l) ==
  SubSeq(l, spacesEnd(l, 1),
         Len(l) + 1 - RunEnd([k \in 1..Len(l) |-> l[Len(l) + 1 - k]], 1, IsSpace))
skipOne(l, p, x) == IF p <= Len(l) /\ l[p] = x THEN p + 1 ELSE p
holdsBar(l) == \E k \in 1..Len(l) : l[k] = "|"

\* /^\s*<!--\s*status:([^:>]+):\s*([^>]+)\s*-->\s*$/i
matchesStatus(l) == IsStatusTag(stripSpaces(l))

\* /^ {4,}\S/
matchesIndented(l) == At(l, 1, <<Indent>>) /\ spacesEnd(l, 2) <= Len(l)

\* /^\s*<!--\s*widget:([A-Za-z0-9_-]+)\s*-->\s*$/i
WidgetNames == { "toc", "TOC" }
widgetNameAt(s) == spacesEnd(s, 2) + 1
matchesWidget(l) ==
  /\ At(stripSpaces(l), 1, <<"<!--">>)
  /\ At(stripSpaces(l), widgetNameAt(stripSpaces(l)) - 1, <<"widget:">>)
  /\ widgetNameAt(stripSpaces(l)) < Len(stripSpaces(l))
  /\ stripSpaces(l)[widgetNameAt(stripSpaces(l))] \in WidgetNames
  /\ spacesEnd(stripSpaces(l), widgetNameAt(stripSpaces(l)) + 1) = Len(stripSpaces(l))
  /\ stripSpaces(l)[Len(stripSpaces(l))] = "-->"

\* /^\s*-------\s*$/
DashedRule == <<"-", "-", "-", "-", "-", "-", "-">>
matchesRule(l) == stripSpaces(l) = DashedRule

\* /^\s*\|?\s*:?\s*-{3,}/ on the line after the header
separatorDashes(sep) ==
  spacesEnd(sep, skipOne(sep, spacesEnd(sep, skipOne(sep, spacesEnd(sep, 1), "|")), ":"))
matchesSeparator(sep) == At(sep, separatorDashes(sep), <<"-", "-", "-">>)
looksLikeTableHeader(lines, index) ==
  /\ index + 1 <= Len(lines)
  /\ holdsBar(lines[index])
  /\ matchesSeparator(lines[index + 1])

\* /^(#{1,6})\s+(.+)$/
hashesEnd(l) == RunEnd(l, 1, LAMBDA x : x = "#")
matchesHeading(l) ==
  /\ hashesEnd(l) \in 2..7
  /\ hashesEnd(l) + 1 <= Len(l)
  /\ IsSpace(l[hashesEnd(l)])

\* /^\s*[-*]\s+/
matchesBullet(l) ==
  /\ spacesEnd(l, 1) + 1 <= Len(l)
  /\ l[spacesEnd(l, 1)] \in {"-", "*"}
  /\ IsSpace(l[spacesEnd(l, 1) + 1])

\* /^!\[(.*?)\]\((.*?)\)\s*$/ : where "](" and the closing ")" stand
imageMids(l) ==
  { k \in 3..Len(l) : At(l, k, <<"]", "(">>)
      /\ \E m \in (k + 2)..Len(l) : l[m] = ")" /\ spacesEnd(l, m + 1) = Len(l) + 1 }
matchesImage(l) == At(l, 1, <<"!", "[">>) /\ imageMids(l) # {}

\* /^>\s*<!--\s*panel:([^:>]+):([^>]+)\s*-->/
panelColorFrom(l) == spacesEnd(l, spacesEnd(l, 2) + 1) + 1
panelColorTo(l) == RunEnd(l, panelColorFrom(l), LAMBDA x : x # ":" /\ ~HoldsGt(x))
panelIconTo(l) == RunEnd(l, panelColorTo(l) + 1, LAMBDA x : ~HoldsGt(x))
matchesPanel(l) ==
  /\ At(l, 1, <<">">>)
  /\ At(l, spacesEnd(l, 2), <<"<!--">>)
  /\ At(l, panelColorFrom(l) - 1, <<"panel:">>)
  /\ panelColorTo(l) > panelColorFrom(l) /\ At(l, panelColorTo(l), <<":">>)
  /\ panelIconTo(l) > panelColorTo(l) + 1
  /\ At(l, panelIconTo(l), <<"-->">>)

\* /^>\s*/
matchesQuote(l) == At(l, 1, <<">">>)

\* The rule that takes the block starting at line i, headings tried
\* before tables
ruleAtHeadingFirst(lines, i) ==
  IF matchesStatus(lines[i]) THEN "status"
  ELSE IF IsCodeFence(lines[i]) THEN "fenced"
  ELSE IF matchesIndented(lines[i]) THEN "indented"
  ELSE IF matchesWidget(lines[i]) THEN "widget"
  ELSE IF matchesRule(lines[i]) THEN "rule"
  ELSE IF matchesHeading(lines[i]) THEN "heading"
  ELSE IF looksLikeTableHeader(lines, i) THEN "table"
  ELSE IF matchesBullet(lines[i]) THEN "list"
  ELSE IF matchesImage(lines[i]) THEN "image"
  ELSE IF matchesPanel(lines[i]) THEN "panel"
  ELSE IF matchesQuote(lines[i]) THEN "quote"
  ELSE "paragraph"

\* The chain of tests of the loop body, for the non-blank line i
ruleAt(lines, i) ==
  IF matchesStatus(lines[i]) THEN "status"
  ELSE IF IsCodeFence(lines[i]) THEN "fenced"
  ELSE IF matchesIndented(lines[i]) THEN "indented"
  ELSE IF matchesWidget(lines[i]) THEN "widget"
  ELSE IF matchesRule(lines[i]) THEN "rule"
  ELSE IF looksLikeTableHeader(lines, i) THEN "table"
  ELSE IF matchesHeading(lines[i]) THEN "heading"
  ELSE IF matchesBullet(lines[i]) THEN "list"
  ELSE IF matchesImage(lines[i]) THEN "image"
  ELSE IF matchesPanel(lines[i]) THEN "panel"
  ELSE IF matchesQuote(lines[i]) THEN "quote"
  ELSE "paragraph"

\* The closing fences after line i
fenceCloses(lines, i) == { k \in (i + 1)..Len(lines) : IsClosingFence(lines[k]) }

\* Mutant: a table takes every line up to the next blank line.
nextIndexTableRunsOn(lines, i, rule) ==
  CASE rule = "fenced" ->
         IF fenceCloses(lines, i) = {} THEN Len(lines) + 1 ELSE Min(fenceCloses(lines, i)) + 1
    [] rule = "indented" ->
         RunEnd(lines, i, LAMBDA l : At(l, 1, <<Indent>>) \/ IsBlankLine(l))
    [] rule = "table" -> RunEnd(lines, i + 2, LAMBDA l : ~IsBlankLine(l))
    [] rule = "list" -> RunEnd(lines, i, matchesBullet)
    [] rule = "image" ->
         IF i + 1 <= Len(lines) /\ ~IsBlankLine(lines[i + 1]) THEN i + 2 ELSE i + 1
    [] rule = "panel" -> RunEnd(lines, i + 1, matchesQuote)
    [] rule = "quote" -> RunEnd(lines, i, matchesQuote)
    [] rule = "paragraph" -> RunEnd(lines, i, LAMBDA l : ~IsBlankLine(l))
    [] OTHER -> i + 1

\* Where the block that starts at line i ends: the index the loop goes on from
nextIndex(lines, i, rule) ==
  CASE rule = "fenced" ->
         IF fenceCloses(lines, i) = {} THEN Len(lines) + 1 ELSE Min(fenceCloses(lines, i)) + 1
    [] rule = "indented" ->
         RunEnd(lines, i, LAMBDA l : At(l, 1, <<Indent>>) \/ IsBlankLine(l))
    [] rule = "table" -> RunEnd(lines, i + 2, LAMBDA l : holdsBar(l) /\ ~IsBlankLine(l))
    [] rule = "list" -> RunEnd(lines, i, matchesBullet)
    [] rule = "image" ->
         IF i + 1 <= Len(lines) /\ ~IsBlankLine(lines[i + 1]) THEN i + 2 ELSE i + 1
    [] rule = "panel" -> RunEnd(lines, i + 1, matchesQuote)
    [] rule = "quote" -> RunEnd(lines, i, matchesQuote)
    [] rule = "paragraph" -> RunEnd(lines, i, LAMBDA l : ~IsBlankLine(l))
    [] OTHER -> i + 1

\* Lexemes of the markup the loop writes
MacroNameOpen == "<ac:structured-macro ac:name=\""
AttrClose == "\">"
RichBodyEmpty == "<ac:rich-text-body/>"
RichBodyOpen == "<ac:rich-text-body>"
RichBodyClose == "</ac:rich-text-body>"
BgColorParamOpen == "<ac:parameter ac:name=\"bgColor\">"
SizedImageOpen == "<ac:image ac:width=\"500\" ac:align=\"center\">"
WidthParam == "<ac:parameter ac:name=\"width\">500</ac:parameter>"
AlignParam == "<ac:parameter ac:name=\"align\">center</ac:parameter>"
AttachmentOpen == "<ri:attachment ri:filename=\""
CaptionOpen == "<ac:caption>"
CaptionClose == "</ac:caption>"

widgetHtml(l) ==
  <<MacroNameOpen, toLowerCaseLexeme(stripSpaces(l)[widgetNameAt(stripSpaces(l))]), AttrClose,
    RichBodyEmpty, MacroClose>>

\* <hN> for the N hash signs of the line
headingLevel(l) == hashesEnd(l) - 1
headingOpen(level) == <<"<h1>", "<h2>", "<h3>", "<h4>", "<h5>", "<h6>">>[level]
headingClose(level) == <<"</h1>", "</h2>", "</h3>", "</h4>", "</h5>", "</h6>">>[level]
headingBlock(l) ==
  <<headingOpen(headingLevel(l))>> \o convertRun(trim(SubSeq(l, hashesEnd(l) + 1, Len(l))))
  \o <<headingClose(headingLevel(l))>>

\* The items of a list: each line with its bullet removed, through inlineHtml
itemText(l) == SubSeq(l, spacesEnd(l, spacesEnd(l, 1) + 1), Len(l))
listItem(l) == <<"<li>">> \o inlineHtml(itemText(l)) \o <<"</li>">>
listBlock(items) == <<"<ul>">> \o Flatten([k \in 1..Len(items) |-> listItem(items[k])]) \o <<"</ul>">>

\* The image of an image line: alt text, source, caption from the next line
imageMid(l) == Min(imageMids(l))
imageEnd(l) == Min({ m \in (imageMid(l) + 2)..Len(l) : l[m] = ")" /\ spacesEnd(l, m + 1) = Len(l) + 1 })
imageAlt(l) == SubSeq(l, 3, imageMid(l) - 1)
imageSrc(l) == SubSeq(l, imageMid(l) + 2, imageEnd(l) - 1)
imageBody(src) ==
  IF src # <<>> /\ src[1] = "#"
  THEN <<AttachmentOpen>> \o escapeHtml(Tail(src)) \o <<AttrEnd>>
  ELSE <<UrlOpen>> \o escapeHtml(src) \o <<AttrEnd>>
captionHtml(captionOrAlt) ==
  IF captionOrAlt = <<>> THEN <<>> ELSE <<CaptionOpen>> \o inlineHtml(captionOrAlt) \o <<CaptionClose>>
imageBlock(l, caption) ==
  <<SizedImageOpen, WidthParam, AlignParam>> \o imageBody(imageSrc(l))
  \o captionHtml(IF caption # <<>> THEN caption ELSE imageAlt(l)) \o <<ImageClose>>

\* The lines of a quotation: tokens, inline formatting and mention macros
\* line by line, <br/> between the lines, comment ranges over the whole
quoteLine(l) ==
  replaceMentionTokensWithMacros(
    inlineHtml(replaceCommentWrapperCommentsWithTokens(replaceMentionCommentsWithTokens(l))))
quoteInner(body) ==
  wrapCommentTokenRangesToInlineMarkers(
    join([k \in 1..Len(body) |-> quoteLine(body[k])], <<"<br/>">>))
unquote(l) == SubSeq(l, spacesEnd(l, 2), Len(l))
quoteBlock(quoted) ==
  <<"<blockquote>">> \o quoteInner([k \in 1..Len(quoted) |-> unquote(quoted[k])]) \o <<"</blockquote>">>

\* The panel of a tagged quotation
KnownPanels == { "info", "note", "warning", "tip", "success", "error" }
panelColor(l) == toLowerCase(trim(SubSeq(l, panelColorFrom(l), panelColorTo(l) - 1)))
firstTail(l) == trim(SubSeq(l, panelIconTo(l) + 1, Len(l)))
panelBody(quoted) ==
  (IF firstTail(quoted[1]) = <<>> THEN <<>> ELSE <<firstTail(quoted[1])>>)
  \o [k \in 1..(Len(quoted) - 1) |-> unquote(quoted[k + 1])]
panelMacro(color, inner) ==
  IF color = <<"panel">>
  THEN <<MacroNameOpen, "panel", AttrClose, RichBodyOpen>> \o inner \o <<RichBodyClose, MacroClose>>
  ELSE IF Len(color) = 1 /\ color[1] \in KnownPanels
  THEN <<MacroNameOpen>> \o color \o <<AttrClose, RichBodyOpen>> \o inner \o <<RichBodyClose, MacroClose>>
  ELSE <<MacroNameOpen, "panel", AttrClose, BgColorParamOpen>> \o escapeHtml(color)
       \o <<ParamClose, RichBodyOpen>> \o inner \o <<RichBodyClose, MacroClose>>
panelBlock(quoted) == panelMacro(panelColor(quoted[1]), quoteInner(panelBody(quoted)))

\* Lines of a text: each is the start of one construct, and most hold a bar
\* so that they are the header of a table when a dashed line follows.
StatusLine(title) == <<"<!--", " ", "status:", "green", ":">> \o title \o <<" ", "-->">>
LoopLines ==
  { <<>>, <<"t">>, <<"a", "|", "b">>, DashedRule,
    StatusLine(<<"a", "|", "b">>), <<Indent>> \o StatusLine(<<"a">>),
    Fence \o <<"js">>, Fence, <<Indent, "x", "|", "y">>,
    <<"<!--", " ", "widget:", "TOC", " ", "-->">>,
    <<"#", " ", "a", "|", "b">>, <<"-", " ", "a", "|", "b">>,
    <<"!", "[", "a", "|", "b", "]", "(", "u", ")">>,
    <<">", " ", "<!--", " ", "panel:", "info", ":", "i", " ", "-->", " ", "a", "|", "b">>,
    <<">", " ", "a", "|", "b">> }

InitLoop ==
  /\ IdleReplace /\ IdleUpload
  /\ input \in SeqsUpTo(LoopLines, MaxLoopLines)
  /\ output = [i |-> 1, out |-> <<>>]
  /\ stage = "loop"

\* if (!line || /^\s*$/.test(line)) { i++; continue; }
SkipBlank ==
  /\ stage = "loop" /\ output.i <= Len(input)
  /\ IsBlankLine(input[output.i])
  /\ output' = [output EXCEPT !.i = @ + 1]
  /\ UNCHANGED <<input, stage, replaceVars, uploadVars>>

\* One iteration on a non-blank line takes the branch of the first rule
\* that matches: the branch pushes its markup and moves the index.
AtRule(rule) ==
  /\ stage = "loop" /\ output.i <= Len(input)
  /\ ~IsBlankLine(input[output.i])
  /\ ruleAt(input, output.i) = rule
Push(rule, next, html) ==
  /\ output' = [i |-> next,
                out |-> Append(output.out,
                               [rule |-> rule, first |-> output.i, next |-> next, html |-> html])]
  /\ UNCHANGED <<input, stage, replaceVars, uploadVars>>
blockLines(next) == SubSeq(input, output.i, next - 1)

EmitStatus ==
  AtRule("status") /\ Push("status", output.i + 1, statusHtml(stripSpaces(input[output.i])))
EmitFenced ==
  /\ AtRule("fenced")
  /\ \E next \in { nextIndex(input, output.i, "fenced") } :
       Push("fenced", next, fencedCode(SubSeq(input, output.i, Len(input))))
EmitIndented ==
  /\ AtRule("indented")
  /\ \E next \in { nextIndex(input, output.i, "indented") } :
       Push("indented", next, indentedCode(SubSeq(input, output.i, Len(input))))
EmitWidget == AtRule("widget") /\ Push("widget", output.i + 1, widgetHtml(input[output.i]))
EmitRule == AtRule("rule") /\ Push("rule", output.i + 1, <<"<hr/>">>)
EmitTable ==
  /\ AtRule("table")
  /\ \E next \in { nextIndex(input, output.i, "table") } :
       Push("table", next, consumeTable(blockLines(next)))
EmitHeading == AtRule("heading") /\ Push("heading", output.i + 1, headingBlock(input[output.i]))
EmitList ==
  /\ AtRule("list")
  /\ \E next \in { nextIndex(input, output.i, "list") } :
       Push("list", next, listBlock(blockLines(next)))
EmitImage ==
  /\ AtRule("image")
  /\ \E next \in { nextIndex(input, output.i, "image") } :
       Push("image", next,
            imageBlock(input[output.i], IF next = output.i + 2 THEN trim(input[output.i + 1]) ELSE <<>>))
EmitPanel ==
  /\ AtRule("panel")
  /\ \E next \in { nextIndex(input, output.i, "panel") } :
       Push("panel", next, panelBlock(blockLines(next)))
EmitQuote ==
  /\ AtRule("quote")
  /\ \E next \in { nextIndex(input, output.i, "quote") } :
       Push("quote", next, quoteBlock(blockLines(next)))
EmitParagraph ==
  /\ AtRule("paragraph")
  /\ \E next \in { nextIndex(input, output.i, "paragraph") } :
       Push("paragraph", next, paragraphHtml(join(blockLines(next), <<" ">>)))

\* while (i < lines.length) fails: return out.join("")
LoopReturn ==
  /\ stage = "loop" /\ output.i > Len(input)
  /\ stage' = "returned"
  /\ UNCHANGED <<input, output, replaceVars, uploadVars>>

NextLoop ==
  \/ SkipBlank \/ EmitStatus \/ EmitFenced \/ EmitIndented \/ EmitWidget \/ EmitRule
  \/ EmitTable \/ EmitHeading \/ EmitList \/ EmitImage \/ EmitPanel \/ EmitQuote
  \/ EmitParagraph \/ LoopReturn

SpecLoop == InitLoop /\ [][NextLoop]_vars

\* The rules in the order of the specification, and what each matches
RuleOrder ==
  <<"status", "fenced", "indented", "widget", "rule", "table", "heading", "list", "image",
    "panel", "quote", "paragraph">>
rankOf(rule) == CHOOSE k \in 1..Len(RuleOrder) : RuleOrder[k] = rule
matchesAt(rule, lines, i) ==
  CASE rule = "status" -> matchesStatus(lines[i])
    [] rule = "fenced" -> IsCodeFence(lines[i])
    [] rule = "indented" -> matchesIndented(lines[i])
    [] rule = "widget" -> matchesWidget(lines[i])
    [] rule = "rule" -> matchesRule(lines[i])
    [] rule = "table" -> looksLikeTableHeader(lines, i)
    [] rule = "heading" -> matchesHeading(lines[i])
    [] rule = "list" -> matchesBullet(lines[i])
    [] rule = "image" -> matchesImage(lines[i])
    [] rule = "panel" -> matchesPanel(lines[i])
    [] rule = "quote" -> matchesQuote(lines[i])
    [] OTHER -> TRUE
\* The construct a block of markup is, read from its first lexemes
constructOf(html) ==
  CASE html[1] = StatusOpen -> {"status"}
    [] html[1] = CodeOpen -> {"fenced", "indented"}
    [] html[1] = MacroNameOpen /\ html[4] = RichBodyEmpty -> {"widget"}
    [] html[1] = "<hr/>" -> {"rule"}
    [] html[1] = "<table>" -> {"table"}
    [] html[1] = "<h1>" -> {"heading"}
    [] html[1] = "<ul>" -> {"list"}
    [] html[1] = SizedImageOpen -> {"image"}
    [] html[1] = MacroNameOpen -> {"panel"}
    [] html[1] = "<blockquote>" -> {"quote"}
    [] html[1] = "<p>" -> {"paragraph"}
    [] OTHER -> {}

\* C21: the block that starts at a line is the construct of the earliest
\* rule, in the fixed order, that the line matches.
C21_EarliestRuleWins ==
  \A b \in 1..Len(output.out) :
    /\ matchesAt(output.out[b].rule, input, output.out[b].first)
    /\ \A k \in 1..Len(RuleOrder) :
         matchesAt(RuleOrder[k], input, output.out[b].first) => rankOf(output.out[b].rule) <= k
    /\ output.out[b].rule \in constructOf(output.out[b].html)

\* a block whose first line matches three rules or more has been emitted
C21_Witness ==
  \E b \in 1..Len(output.out) :
    /\ Cardinality({ k \in 1..Len(RuleOrder) : matchesAt(RuleOrder[k], input, output.out[b].first) }) >= 3
    /\ output.out[b].rule = "table"

\* The blocks that hold line k, and the lines a block was written from
blocksHolding(k) ==
  { b \in 1..Len(output.out) : output.out[b].first <= k /\ k < output.out[b].next }
consumedBy(b) == SubSeq(input, output.out[b].first, output.out[b].next - 1)
allLines(ls, from, P(_)) == \A k \in from..Len(ls) : P(ls[k])
writtenFromItsLines(b) ==
  CASE output.out[b].rule \in {"status", "widget", "rule", "heading"} -> Len(consumedBy(b)) = 1
    [] output.out[b].rule = "image" -> Len(consumedBy(b)) \in {1, 2}
    [] output.out[b].rule = "table" ->
         Len(consumedBy(b)) >= 2 /\ allLines(consumedBy(b), 3, holdsBar)
    [] output.out[b].rule = "list" ->
         /\ allLines(consumedBy(b), 1, matchesBullet)
         /\ output.out[b].html = listBlock(consumedBy(b))
    [] output.out[b].rule = "panel" -> allLines(consumedBy(b), 2, matchesQuote)
    [] output.out[b].rule = "quote" -> allLines(consumedBy(b), 1, matchesQuote)
    [] output.out[b].rule = "paragraph" ->
         /\ allLines(consumedBy(b), 1, LAMBDA l : ~IsBlankLine(l))
         /\ output.out[b].html = paragraphHtml(join(consumedBy(b), <<" ">>))
    [] OTHER -> Len(consumedBy(b)) >= 1
everyLineOnce ==
  /\ \A k \in 1..Len(input) : ~IsBlankLine(input[k]) => Cardinality(blocksHolding(k)) = 1
  /\ \A b \in 1..Len(output.out) : writtenFromItsLines(b)

\* C27: every iteration moves the index on by at least one line and the
\* index never passes the end of the text by more than one, so that the loop
\* returns after at most as many iterations as the text has lines; when it
\* has returned, every non-blank line has been consumed by exactly one
\* emitted block.
C27_LoopAdvancesLinesOnce ==
  /\ output.i <= Len(input) + 1
  /\ \A b \in 1..Len(output.out) :
       /\ output.out[b].first < output.out[b].next
       /\ output.out[b].next <= output.i
       /\ b > 1 => output.out[b - 1].next <= output.out[b].first
  /\ stage = "returned" => output.i = Len(input) + 1 /\ everyLineOnce

\* a text of a blank line and two blocks, one of them of two lines, has
\* been converted
C27_Witness ==
  /\ stage = "returned"
  /\ Len(output.out) = 2
  /\ \E k \in 1..Len(input) : IsBlankLine(input[k])
  /\ \E b \in 1..Len(output.out) : output.out[b].next = output.out[b].first + 2

(***************************************************************************)
(* Bullet-list items against paragraphs: the list branch of                *)
(* markdownToStorageHtml on lines that all hold a bullet, and the          *)
(* paragraph branch on the same texts                                      *)
(***************************************************************************)
MaxItems == 2    \* bullet lines of one list

MentionMarker == <<"<!--", " ", "mention:", "u1", " ", "t", " ", "-->">>
ItemPieces == { <<"t">>, MentionMarker, StartMarker(<<"c">>), EndMarker(<<"c">>) }
ItemTexts == TextsOf(ItemPieces, 2) \ { <<>> }
bulletLine(text) == <<"-", " ">> \o text

InitItems ==
  /\ IdleReplace /\ IdleUpload
  /\ input \in { [kind |-> k, texts |-> ts] :
                   k \in {"list", "paragraphs"},
                   ts \in SeqsUpTo(ItemTexts, MaxItems) \ { <<>> } }
  /\ output = <<>>
  /\ stage = "call"

\* The list branch: every line matches the bullet rule, one <li> per line
ConvertItems ==
  /\ stage = "call" /\ input.kind = "list"
  /\ output' = listBlock([k \in 1..Len(input.texts) |-> bulletLine(input.texts[k])])
  /\ stage' = "items"
  /\ UNCHANGED <<input, replaceVars, uploadVars>>

\* The paragraph branch on the same texts, each its own paragraph
ConvertParagraphs ==
  /\ stage = "call" /\ input.kind = "paragraphs"
  /\ output' = Flatten([k \in 1..Len(input.texts) |-> paragraphHtml(input.texts[k])])
  /\ stage' = "paragraphs"
  /\ UNCHANGED <<input, replaceVars, uploadVars>>

NextItems == ConvertItems \/ ConvertParagraphs

SpecItems == InitItems /\ [][NextItems]_vars

formattedItems(texts) ==
  <<"<ul>">> \o Flatten([k \in 1..Len(texts) |-> <<"<li>">> \o convertRun(trim(texts[k])) \o <<"</li>">>])
  \o <<"</ul>">>

\* C22: every bullet-list item is run through the inline formatting of a
\* paragraph: the list holds, item by item, what the paragraph passes make
\* of the item text (a mention construct for a mention marker, one wrapping
\* construct for a balanced comment-range pair), and no marker is left in
\* it as escaped literal text.
C22_ItemsFormattedAsParagraphs ==
  stage = "items" =>
    /\ output = formattedItems(input.texts)
    /\ \A k \in 1..Len(output) : output[k] \notin {"mention:", "comment:", "commend-end:"}

(***************************************************************************)
(* Panels: the panel branch of markdownToStorageHtml, the panel rule of    *)
(* normalizeMacros and the panel replace of decodeMdCommentTokens          *)
(***************************************************************************)
PanelMacroNames == KnownPanels \cup { "panel" }

\* /<ac:structured-macro\b[^>]*\bac:name=["'](info|...|panel)["'][^>]*>
\*  ([\s\S]*?)<\/ac:structured-macro>/gi : the end of the macro that opens at i
PanelMacroAt(t, i) ==
  IF At(t, i, <<MacroNameOpen>>) /\ i + 2 <= Len(t)
     /\ toLowerCaseLexeme(t[i + 1]) \in PanelMacroNames /\ t[i + 2] = AttrClose
  THEN ElementAt(t, i, MacroNameOpen, MacroClose)
  ELSE 0

\* inner.match(/<ac:rich-text-body[^>]*>([\s\S]*?)<\/ac:rich-text-body>/i)?.[1] || ''
richTextBody(inner) ==
  LET at == IndexOf(inner, 1, <<RichBodyOpen>>)
      to == IndexOf(inner, at + 1, <<RichBodyClose>>)
  IN IF at = 0 \/ to = 0 THEN <<>> ELSE SubSeq(inner, at + 1, to - 1)

MacroPanelToken(color, icon, body) ==
  <<"MD", "_PANEL", "(">> \o encodeURIComponent(color) \o <<",">> \o encodeURIComponent(icon)
  \o <<")", "[">> \o encodeURIComponent(body) \o <<"]">>

\* The callback of the panel replace of normalizeMacros
panelToken(macro, inner) ==
  IF macro = "panel"
  THEN MacroPanelToken(orDefault(paramValue(inner, BgColorParamOpen), <<"panel">>), <<"panel">>,
                       richTextBody(inner))
  ELSE MacroPanelToken(<<macro>>, <<macro>>, richTextBody(inner))

panelTokens(html) ==
  ReplaceAll(html, PanelMacroAt,
             LAMBDA s, i, e : panelToken(toLowerCaseLexeme(s[i + 1]), SubSeq(s, i + 3, e - 2)))

NoPanelMatch == [colorFrom |-> 0, colorTo |-> 0, iconTo |-> 0, bodyFrom |-> 0, bodyTo |-> 0, end |-> 0]

\* /MD(?:\\)?_PANEL\(([^,)]*),([^)]*)\)(?:\\)?\[([\s\S]*?)(?:\\)?\]/
PanelTokenAt(t, i) ==
  LET w == IF At(t, i + 1, <<BS>>) THEN i + 2 ELSE i + 1
      colorTo == RunEnd(t, w + 2, LAMBDA x : x \notin { ",", ")" })
      iconTo == RunEnd(t, colorTo + 1, LAMBDA x : x # ")")
      b == IF At(t, iconTo + 1, <<BS>>) THEN iconTo + 2 ELSE iconTo + 1
      closes == { k \in (b + 1)..Len(t) : At(t, k, <<"]">>) \/ At(t, k, <<BS, "]">>) }
  IN IF At(t, i, <<"MD">>) /\ At(t, w, <<"_PANEL", "(">>) /\ At(t, colorTo, <<",">>)
        /\ iconTo <= Len(t) /\ At(t, b, <<"[">>) /\ closes # {}
     THEN LET k == Min(closes)
          IN [colorFrom |-> w + 2, colorTo |-> colorTo, iconTo |-> iconTo, bodyFrom |-> b + 1,
              bodyTo |-> k, end |-> IF t[k] = BS THEN k + 2 ELSE k + 1]
     ELSE NoPanelMatch

\* for (const l of lines) outLines.push(l.trim().length ? `> ${l}` : ">")
panelQuoteLine(l) == IF trim(l) = <<>> THEN <<">">> ELSE <<">", " ">> \o l

\* The callback of the panel replace of decodeMdCommentTokens
panelQuote(color, icon, innerMd) ==
  join(<<<<">", " ", "<!--", " ", "panel:">> \o color \o <<":">> \o icon \o <<" ", "-->">>>>
       \o [k \in 1..Len(split(innerMd, NL)) |-> panelQuoteLine(split(innerMd, NL)[k])],
       <<NL>>)

panelQuoteOf(colorDec, iconDec, innerHtml) ==
  panelQuote(orDefault(colorDec, <<"info">>),
             orDefault(iconDec, orDefault(colorDec, <<"info">>)),
             unescapeMarkdownUnderscores(decodeMdCommentTokens(turndown(innerHtml))))

panelQuoteAt(s, m) ==
  panelQuoteOf(decodeURIComponent(SubSeq(s, m.colorFrom, m.colorTo - 1)),
               decodeURIComponent(SubSeq(s, m.colorTo + 1, m.iconTo - 1)),
               decodeURIComponent(SubSeq(s, m.bodyFrom, m.bodyTo - 1)))

decodePanels(s) ==
  ReplaceAll(s, LAMBDA t, i : PanelTokenAt(t, i).end,
             LAMBDA t, i, e : panelQuoteAt(t, PanelTokenAt(t, i)))

\* storageToMarkdownBlocks on a document that holds one panel macro at top
\* level: after normalizeMacros the token is a top-level text node, which
\* is decoded without turndown; the other decoders find nothing in it.
panelDownload(html) ==
  trim(unescapeMarkdownUnderscores(decodePanels(trim(decodeBasicEntities(panelTokens(html))))))

\* markdownToStorageHtml on a text that is one block: a tagged quotation
\* with its quoted lines, or else a paragraph
panelUpload(lines) ==
  IF ruleAt(lines, 1) = "panel" THEN panelBlock(lines) ELSE paragraphHtml(join(lines, <<" ">>))

PanelColours == { <<"red">>, <<"Red">>, <<"#", "0af">>, <<"rgb", "(", "1", ")">> }
PanelBodies == { <<"t">>, <<"a", " ", "b">>, <<"t", "&amp;", "t">> }

\* A panel macro of a page: a named one, a generic one, a generic one with
\* a background colour
PanelMacros ==
  { <<MacroNameOpen, n, AttrClose, RichBodyOpen>> \o b \o <<RichBodyClose, MacroClose>> :
      n \in PanelMacroNames \cup { "Info" }, b \in PanelBodies }
  \cup { <<MacroNameOpen, "panel", AttrClose, BgColorParamOpen>> \o c
         \o <<ParamClose, RichBodyOpen>> \o b \o <<RichBodyClose, MacroClose>> :
           c \in PanelColours, b \in PanelBodies }

\* A tagged quotation of a text file
PanelQuotes ==
  { panelQuote(c, <<"i">>, b) :
      c \in PanelColours \cup { <<n>> : n \in PanelMacroNames \cup { "Info" } },
      b \in { <<"t">>, <<"a", " ", "b">> } }

InitPanel ==
  /\ IdleReplace /\ IdleUpload
  /\ input \in { [from |-> "text", doc |-> q] : q \in PanelQuotes }
               \cup { [from |-> "page", doc |-> m] : m \in PanelMacros }
  /\ output = <<>>
  /\ stage = "call"

UploadQuote ==
  /\ stage = "call" /\ input.from = "text"
  /\ output' = panelUpload(split(input.doc, NL))
  /\ stage' = "uploaded"
  /\ UNCHANGED <<input, replaceVars, uploadVars>>

DownloadPanel ==
  /\ stage = "call" /\ input.from = "page"
  /\ output' = panelDownload(input.doc)
  /\ stage' = "downloaded"
  /\ UNCHANGED <<input, replaceVars, uploadVars>>

UploadPanel ==
  /\ stage = "downloaded"
  /\ output' = panelUpload(split(output, NL))
  /\ stage' = "round trip"
  /\ UNCHANGED <<input, replaceVars, uploadVars>>

NextPanel == UploadQuote \/ DownloadPanel \/ UploadPanel

SpecPanel == InitPanel /\ [][NextPanel]_vars

\* The kind and the colour of a panel macro: its name, and the value of
\* its background-colour parameter
panelKind(html) ==
  IF Len(html) >= 2 /\ html[1] = MacroNameOpen THEN toLowerCaseLexeme(html[2]) ELSE "none"
panelBg(html) == toLowerCase(decodeBasicEntities(paramValue(html, BgColorParamOpen)))
quoteColour(text) == toLowerCase(trim(SubSeq(text, 6, IndexOf(text, 6, <<":">>) - 1)))

\* C23: a tagged quotation with colour c is emitted as the macro named c
\* when c is one of info, note, warning, tip, success, error; as the panel
\* macro without colour parameter when c is panel; otherwise as the panel
\* macro whose bgColor parameter is c.  A panel macro of a page, written to
\* a text and read back, is a panel macro of the same kind and the same
\* colour (colours compared without regard to letter case).
C23_PanelKindsAndColours ==
  /\ stage = "uploaded" =>
       LET c == quoteColour(input.doc)
       IN /\ Len(c) = 1 /\ c[1] \in KnownPanels =>
               panelKind(output) = c[1] /\ IndexOf(output, 1, <<BgColorParamOpen>>) = 0
          /\ c = <<"panel">> =>
               panelKind(output) = "panel" /\ IndexOf(output, 1, <<BgColorParamOpen>>) = 0
          /\ ~(Len(c) = 1 /\ c[1] \in PanelMacroNames) =>
               panelKind(output) = "panel" /\ panelBg(output) = c
  /\ stage = "round trip" =>
       /\ panelKind(output) = panelKind(input.doc)
       /\ panelBg(output) = panelBg(input.doc)

(***************************************************************************)
(* Claims about one iteration of the loop of replaceNodesById              *)
(***************************************************************************)
nodeAt(doc, path) == IF Len(path) = 1 THEN doc[path[1]] ELSE doc[path[1]].kids[path[2]]

\* The document differs from the one before at the given path only
onlyChangedAt(before, after, path) ==
  /\ Len(after) = Len(before)
  /\ \A i \in 1..Len(before) : i # path[1] => after[i] = before[i]
  /\ Len(path) = 2 =>
       /\ after[path[1]].id = before[path[1]].id
       /\ after[path[1]].txt = before[path[1]].txt
       /\ Len(after[path[1]].kids) = Len(before[path[1]].kids)
       /\ \A j \in 1..Len(before[path[1]].kids) :
            j # path[2] => after[path[1]].kids[j] = before[path[1]].kids[j]

located == rpc = "loop" /\ replacements # <<>>
             /\ querySelector(storageDoc, Head(replacements).nodeId) # <<>>

\* C24 (as stated): an iteration whose node is located puts exactly one
\* node, the first child of the parsed fragment, at the position of the
\* located node and changes nothing else; of a fragment with several
\* top-level nodes only the first is inserted.
C24_FirstChildInPlace ==
  [][located =>
       /\ onlyChangedAt(storageDoc, storageDoc', querySelector(storageDoc, Head(replacements).nodeId))
       /\ Head(replacements).html # <<>>
       /\ nodeAt(storageDoc', querySelector(storageDoc, Head(replacements).nodeId))
            = Head(replacements).html[1]]_vars

\* C24 (amended): an iteration whose node is located puts exactly one node
\* at the position of the located node and changes nothing else: the first
\* child of the parsed fragment, or the empty placeholder div when the
\* fragment holds no node.
C24_FirstChildOrDivInPlace ==
  [][located =>
       /\ onlyChangedAt(storageDoc, storageDoc', querySelector(storageDoc, Head(replacements).nodeId))
       /\ Head(replacements).html # <<>> =>
            nodeAt(storageDoc', querySelector(storageDoc, Head(replacements).nodeId))
              = Head(replacements).html[1]
       /\ Head(replacements).html = <<>> =>
            nodeAt(storageDoc', querySelector(storageDoc, Head(replacements).nodeId))
              = Leaf(NoId, [k |-> "div", i |-> 0, j |-> 0])]_vars

\* C24 witness: a call that replaced a child node by the first of the two
\* nodes of a fragment, and a located node by the empty div.
C24_Witness ==
  /\ rpc = "done" /\ Len(call.entries) = 2 /\ missing = <<>>
  /\ Len(call.entries[1].html) = 2 /\ call.entries[2].html = <<>>
  /\ \E i \in 1..Len(storageDoc) :
       /\ Len(storageDoc[i].kids) = 1
       /\ storageDoc[i].kids[1] = call.entries[1].html[1]
  /\ \E i \in 1..Len(storageDoc) : storageDoc[i].txt.k = "div"

(***************************************************************************)
(* download: the header that downloadAll and downloadFromUrl write over a  *)
(* file that may already exist                                             *)
(***************************************************************************)
MaxDownloads == 3    \* downloads of the page into the one file

\* A value of the remote page that goes into a header line; term says that
\* it holds the comment terminator, before which the text is `value`; more
\* holds the lines that follow a line break inside the value.
RemoteValue(value, term, more) == [value |-> value, term |-> term, more |-> more]
NoValue == RemoteValue("", FALSE, <<>>)
RemoteTitles == { RemoteValue("T", FALSE, <<>>), RemoteValue("a", TRUE, <<>>) }

\* extras.status: `${color || 'grey'}:${label || 'Status'}` of the first
\* status macro of the page; the label is the title parameter without its
\* tags, trimmed at both ends.  The last one is the label "x", a line
\* break, "READONLY".
RemoteStatuses ==
  { NoValue, RemoteValue("green:ok", FALSE, <<>>), RemoteValue("grey:x", FALSE, <<ReadonlyLine>>) }
RemoteBodies == { <<TextLine(1)>>, <<TagLine("1"), TextLine(2)>> }

\* `key: value` in lines.join("\n"): the line, and the lines after a line
\* break of the value
valueLine(key, v) == <<[key |-> key, colon |-> TRUE, value |-> v.value, term |-> v.term]>> \o v.more

\* emitHeader(meta): the lines between "<!--" and the closing "-->"
emitHeader(meta) ==
  (IF meta.readonly THEN <<ReadonlyLine>> ELSE <<>>)
  \o valueLine("spaceId", meta.spaceId) \o valueLine("pageId", meta.pageId)
  \o valueLine("title", meta.title)
  \o (IF meta.status.value # "" THEN valueLine("status", meta.status) ELSE <<>>)

\* parseHeader(existingText).meta.status: the value of the last status line
\* of the header
statusLines(file) ==
  IF ~file.hasHeader THEN {}
  ELSE { k \in 1..headerEnd(file.header) :
           file.header[k].key = "status" /\ matchKeyValue(file.header[k]) }
existingStatus(file) ==
  IF statusLines(file) = {} THEN NoValue
  ELSE RemoteValue(file.header[Max(statusLines(file))].value, FALSE, <<>>)

NoFile == File(FALSE, <<>>, <<>>)

\* const next = header + body.trim() + "\n"
nextFile(existing, title, status, body) ==
  File(TRUE,
       emitHeader([readonly |-> parseHeader(existing).meta.readonly,
                   spaceId |-> RemoteValue("s1", FALSE, <<>>),
                   pageId |-> RemoteValue("p1", FALSE, <<>>),
                   title |-> title,
                   status |-> IF status.value # "" THEN status ELSE existingStatus(existing)]),
       body)

\* if (!force && existing === next) ... else fs.writeFileSync(filePath, next)
written(existing, next, force) == IF ~force /\ existing = next THEN existing ELSE next

\* The files a download can find: none, and files with a header
DownloadFiles == { NoFile } \cup { File(TRUE, h, <<TextLine(1)>>) : h \in Headers }

InitHeader ==
  /\ IdleReplace /\ IdleUpload
  /\ input \in DownloadFiles
  /\ output = input
  /\ stage = 0

\* One iteration of the loop of downloadAll over the files that carry a
\* pageId: the title of the file is kept when it has one
DownloadAll ==
  /\ stage \in 0..(MaxDownloads - 1)
  /\ parseHeader(output).meta.pageId # ""
  /\ \E t \in RemoteTitles, s \in RemoteStatuses, b \in RemoteBodies, force \in BOOLEAN :
       output' = written(output,
                         nextFile(output,
                                  IF parseHeader(output).meta.title # ""
                                  THEN RemoteValue(parseHeader(output).meta.title, FALSE, <<>>) ELSE t,
                                  s, b),
                         force)
  /\ stage' = stage + 1
  /\ UNCHANGED <<input, replaceVars, uploadVars>>

\* downloadFromUrl into the path of the file
DownloadFromUrl ==
  /\ stage \in 0..(MaxDownloads - 1)
  /\ \E t \in RemoteTitles, s \in RemoteStatuses, b \in RemoteBodies, force \in BOOLEAN :
       output' = written(output, nextFile(output, t, s, b), force)
  /\ stage' = stage + 1
  /\ UNCHANGED <<input, replaceVars, uploadVars>>

NextHeader == DownloadAll \/ DownloadFromUrl

SpecHeader == InitHeader /\ [][NextHeader]_vars

\* The header of a file, which ends at the first terminator, holds the
\* line READONLY
headerCarriesReadonly(file) ==
  /\ file.hasHeader
  /\ \E k \in 1..headerEnd(file.header) :
       file.header[k].key = "READONLY" /\ ~file.header[k].colon

\* C25: after any sequence of downloads into a file, the header of the
\* file carries READONLY if and only if the header of the file before the
\* first download carried it.
C25_ReadonlySurvivesDownloads == headerCarriesReadonly(output) <=> headerCarriesReadonly(input)

(***************************************************************************)
(* The order of the entries of an edit map                                 *)
(***************************************************************************)
backwards(entries) == [k \in 1..Len(entries) |-> entries[Len(entries) + 1 - k]]
missingSetOf(st) == { st.missing[k] : k \in 1..Len(st.missing) }

\* C26: the document and the set of missing identifiers that
\* replaceNodesById returns are those it returns when the entries of the
\* edit map are processed in the opposite order, whatever the document and
\* the edit map, nested identified nodes included.
C26_OrderOfEntriesIrrelevant ==
  rpc = "done" =>
    /\ replaceNodesById(call.doc, backwards(call.entries)).html = storageDoc
    /\ missingSetOf(replaceNodesById(call.doc, backwards(call.entries))) = MissingSet

(***************************************************************************)
(* Node tags: the body download writes from the blocks of a page, and the  *)
(* blocks parseBlocks reads from it                                        *)
(***************************************************************************)
\* emitTag({ tagType: "content", nodeId })
emitTag(nodeId) == <<"<!--", " ", "node:", nodeId, " ", "-->", NL>>

\* (b.nodeId ? emitTag(...) : "") + b.markdown + "\n"
blockWritten(b) == (IF b.nodeId # NoId THEN emitTag(b.nodeId) ELSE <<>>) \o b.markdown \o <<NL>>

\* blocks.map(...).join("\n"), the comment-range tokens decoded, trimmed
bodyWritten(blocks) ==
  trim(decodeEnds(decodeStarts(join([k \in 1..Len(blocks) |-> blockWritten(blocks[k])], <<NL>>))))

\* line.match(NODE_TAG_RE), /<!--\s*node:(?<id>[\w-:]+)\s*-->/ : the
\* identifier of the first node tag in the line, NoId when there is none
nodeTagAt(l, i) ==
  At(l, i, <<"<!--">>) /\ At(l, spacesEnd(l, i + 1), <<"node:">>)
  /\ spacesEnd(l, i + 1) + 1 <= Len(l) /\ l[spacesEnd(l, i + 1) + 1] \in NodeIds
  /\ At(l, spacesEnd(l, spacesEnd(l, i + 1) + 2), <<"-->">>)
nodeTagOf(l) ==
  IF \E i \in 1..Len(l) : nodeTagAt(l, i)
  THEN l[spacesEnd(l, Min({ i \in 1..Len(l) : nodeTagAt(l, i) }) + 1) + 1]
  ELSE NoId

\* A line of the body as the loop of parseBlocks sees it
bodyLine(l) ==
  IF nodeTagOf(l) # NoId THEN TagLine(nodeTagOf(l))
  ELSE IF IsBlankLine(l) THEN BLine("blank", NoId, l)
  ELSE TextLine(l)

\* markdownBody.split(/\r?\n/)
bodyLines(body) == [k \in 1..Len(split(body, NL)) |-> bodyLine(split(body, NL)[k])]

\* current.join("\n") of a parsed block
parsedText(b) == join([k \in 1..Len(b.text) |-> b.text[k].t], <<NL>>)

\* Paragraphs of a page: text, a code macro, a code macro whose body holds
\* an empty line; with and without data-node-id
TaggedInners ==
  { <<"t">>, codeMacro(<<"js">>, <<"x">>), codeMacro(<<>>, <<"x", NL, NL, "y">>) }
TaggedPages ==
  { p \in SeqsUpTo({ [kind |-> "p", id |-> i, inner |-> t] : i \in NodeIds \cup {NoId}, t \in TaggedInners },
                   MaxNodes) :
      p # <<>> /\ \A a, b \in 1..Len(p) : (a # b /\ p[a].id # NoId) => p[a].id # p[b].id }

InitTags ==
  /\ IdleReplace /\ IdleUpload
  /\ input \in TaggedPages
  /\ output = [blocks |-> <<>>, body |-> <<>>, parsed |-> <<>>]
  /\ stage = "page"

\* download: the blocks of the page and the body written from them
WriteBody ==
  /\ stage = "page"
  /\ \E blocks \in { storageToMarkdownBlocksOfPage(input) } :
       output' = [blocks |-> blocks, body |-> bodyWritten(blocks), parsed |-> <<>>]
  /\ stage' = "file"
  /\ UNCHANGED <<input, replaceVars, uploadVars>>

\* upload: parseBlocks on the body of the file
ParseBody ==
  /\ stage = "file"
  /\ output' = [output EXCEPT !.parsed = parseBlocks(bodyLines(output.body))]
  /\ stage' = "parsed"
  /\ UNCHANGED <<input, replaceVars, uploadVars>>

NextTags == WriteBody \/ ParseBody

SpecTags == InitTags /\ [][NextTags]_vars

\* C28: of the body written from the blocks of a page, parseBlocks reads,
\* for each block with a nodeId, exactly one block tagged with that nodeId,
\* whose text is the whole text of the block (blank lines inside it
\* included); and every tagged block read carries the text of the block
\* its tag was written for.
C28_TagsReadBackWithTheirText ==
  stage = "parsed" =>
    /\ \A k \in 1..Len(output.blocks) :
         output.blocks[k].nodeId # NoId =>
           /\ Cardinality({ n \in 1..Len(output.parsed) :
                              output.parsed[n].tag = output.blocks[k].nodeId }) = 1
           /\ \A n \in 1..Len(output.parsed) :
                output.parsed[n].tag = output.blocks[k].nodeId =>
                  parsedText(output.parsed[n]) = output.blocks[k].markdown
    /\ \A n \in 1..Len(output.parsed) :
         output.parsed[n].tag # NoId =>
           \E k \in 1..Len(output.blocks) :
             /\ output.blocks[k].nodeId = output.parsed[n].tag
             /\ output.blocks[k].markdown = parsedText(output.parsed[n])

(***************************************************************************)
(* Claims about the documents and versions uploadAll submits               *)
(***************************************************************************)
holdsTagLine(n) == \E j \in 1..Len(n.txt.lines) : n.txt.lines[j].kind = "tag"

\* C29: a document that uploadAll submits on the full-document fallback
\* holds no node tag of the file: no paragraph or other block of it holds
\* a tag line, alone or merged with the lines that follow it.
C29_NoTagInFallback ==
  \A n \in 1..Len(updates) :
    updates[n].via = "fallback" =>
      \A k \in 1..Len(updates[n].html) : ~holdsTagLine(updates[n].html[k])

\* C30: every update is submitted from the state a fetch of the page has
\* just left in the same iteration of the loop, for the page of the file of
\* that iteration, with the version number one greater than the fetched
\* one, and it is the only update of that iteration.
C30_UpdateFollowsItsFetch ==
  [][/\ updates' # updates =>
          /\ upc = "fetched"
          /\ updates' = Append(updates, updates'[Len(updates')])
          /\ updates'[Len(updates')].idx = fileIdx
          /\ updates'[Len(updates')].pageId = parseHeader(disk[files[fileIdx]]).meta.pageId
          /\ updates'[Len(updates')].base = fetched
          /\ updates'[Len(updates')].version = fetched.version + 1
          /\ UpdatesOf(fileIdx) = {}
     /\ (upc' = "fetched" /\ upc # "fetched") =>
          /\ upc = "loop" /\ fileIdx' = fileIdx
          /\ fetched' = [storageHtml |-> remote.storage, version |-> remote.version]
     /\ upc = "fetched" => (fileIdx' = fileIdx /\ fetched' = fetched)]_vars

\* C30 witness: a finished run that updated the page from both files, the
\* second time from the version the first update had produced.
C30_Witness ==
  /\ upc = "done" /\ Len(updates) = 2
  /\ updates[1].base.version = 1 /\ updates[1].version = 2
  /\ updates[2].base.version = 2 /\ updates[2].version = 3
  /\ remote.version = 3

====
